---------------------------- MODULE Spec2Model ----------------------------
(***************************************************************************)
(* A model of Gonana, a style checker and auto-fixer for C source files.   *)
(*                                                                         *)
(* Text is modelled by TLA+ strings: a line, a file's content and a path   *)
(* are strings, and the Go string functions the program calls are the      *)
(* operators of the first section, computed character by character.        *)
(***************************************************************************)
EXTENDS Integers, Sequences, FiniteSets, Bags, TLC

(***************************************************************************)
(* The state.                                                              *)
(***************************************************************************)

VARIABLES
  fs,            \* the directory: path -> file or NoFile
  args,          \* the parsed flags [mode, dryRun, level]
  pc,            \* where the run or the call is: "main", "fix", "analyze", "done", ...
  analyzer,      \* the Analyzer [level, rules] NewAnalyzer built
  files,         \* the list collectCFiles / collectFiles returned
  next,          \* the 1-based index in files of the next iteration
  totalFixes,    \* runFixer's totalFixes
  filesModified, \* runFixer's filesModified
  report,        \* AnalyzePath's *Report
  log,           \* history: what each iteration of the loop over files got
  fileAnalysis,  \* the *FileAnalysis checkRules is given
  visited,       \* the codes of the rules checkRules' loop has visited
  collected,     \* checkRules' violations so far
  input,         \* the argument of the function a function specification applies
  output         \* its result

vars ==
  <<fs, args, pc, analyzer, files, next, totalFixes, filesModified, report, log,
    fileAnalysis, visited, collected, input, output>>

runVars == <<fs, args, analyzer, files, next, totalFixes, filesModified, report, log>>

ruleVars == <<fileAnalysis, visited, collected>>

funVars == <<input, output>>


(***************************************************************************)
(* Go's strings and path/filepath functions, as the program uses them.     *)
(***************************************************************************)

Char(s, i) == SubSeq(s, i, i)

MinOf(S) == CHOOSE x \in S : \A y \in S : x <= y

MaxOf(S) == CHOOSE x \in S : \A y \in S : x >= y

\* The white space of strings.TrimSpace, strings.Fields and the regexp class \s
\* (within the characters the model's texts are made of).
WhiteSpace == {" ", "\t", "\n", "\r", "\f"}

UpperLetters == "ABCDEFGHIJKLMNOPQRSTUVWXYZ"

LowerLetters == "abcdefghijklmnopqrstuvwxyz"

Digits == "0123456789"

CharsOf(s) == {Char(s, i) : i \in 1..Len(s)}

IsUpper(c) == c \in CharsOf(UpperLetters)

IsLower(c) == c \in CharsOf(LowerLetters)

IsDigit(c) == c \in CharsOf(Digits)

\* unicode.ToLower on one character.
ToLower(c) ==
  IF IsUpper(c)
    THEN LET i == CHOOSE k \in 1..Len(UpperLetters) : Char(UpperLetters, k) = c
         IN  Char(LowerLetters, i)
    ELSE c

\* strings.Index: the 0-based offset of the first sub in s, or -1.
Index(s, sub) ==
  LET at == {i \in 1..(Len(s) - Len(sub) + 1) : SubSeq(s, i, i + Len(sub) - 1) = sub}
  IN  IF at = {} THEN -1 ELSE MinOf(at) - 1

\* strings.LastIndex, for a sub of one character.
LastIndex(s, sub) ==
  LET at == {i \in 1..Len(s) : Char(s, i) = sub}
  IN  IF at = {} THEN -1 ELSE MaxOf(at) - 1

Contains(s, sub) == Index(s, sub) >= 0

HasPrefix(s, p) == Len(s) >= Len(p) /\ SubSeq(s, 1, Len(p)) = p

HasSuffix(s, p) == Len(s) >= Len(p) /\ SubSeq(s, Len(s) - Len(p) + 1, Len(s)) = p

TrimSuffix(s, p) == IF HasSuffix(s, p) THEN SubSeq(s, 1, Len(s) - Len(p)) ELSE s

\* The number of leading characters of s that are in set.
LeadingIn(s, set) ==
  LET out == {i \in 1..Len(s) : Char(s, i) \notin set}
  IN  IF out = {} THEN Len(s) ELSE MinOf(out) - 1

\* The number of trailing characters of s that are in set.
TrailingIn(s, set) ==
  LET out == {i \in 1..Len(s) : Char(s, i) \notin set}
  IN  IF out = {} THEN Len(s) ELSE Len(s) - MaxOf(out)

\* strings.TrimLeft(s, cutset)
TrimLeft(s, set) == SubSeq(s, LeadingIn(s, set) + 1, Len(s))

\* strings.TrimRight(s, cutset)
TrimRight(s, set) == SubSeq(s, 1, Len(s) - TrailingIn(s, set))

\* strings.TrimSpace
TrimSpace(s) == TrimRight(TrimLeft(s, WhiteSpace), WhiteSpace)

\* strings.Count, for a sub of one character.
Count(s, sub) == Cardinality({i \in 1..Len(s) : Char(s, i) = sub})

\* strings.Repeat
RECURSIVE Repeat(_, _)
Repeat(c, n) == IF n <= 0 THEN "" ELSE c \o Repeat(c, n - 1)

\* strings.Split(s, sep), for a sep of one character: never an empty result,
\* Split("", sep) is <<"">>.
RECURSIVE Split(_, _)
Split(s, sep) ==
  LET idx == Index(s, sep)
  IN  IF idx < 0
        THEN <<s>>
        ELSE <<SubSeq(s, 1, idx)>> \o Split(SubSeq(s, idx + 2, Len(s)), sep)

\* strings.Join
RECURSIVE Join(_, _)
Join(elems, sep) ==
  IF Len(elems) = 0 THEN ""
  ELSE IF Len(elems) = 1 THEN elems[1]
  ELSE elems[1] \o sep \o Join(Tail(elems), sep)

\* strings.Fields: the maximal runs of non-white-space characters.
RECURSIVE Fields(_)
Fields(s) ==
  LET t == TrimLeft(s, WhiteSpace)
      n == LeadingIn(t, CharsOf(t) \ WhiteSpace)
  IN  IF t = "" THEN <<>>
      ELSE <<SubSeq(t, 1, n)>> \o Fields(SubSeq(t, n + 1, Len(t)))

\* filepath.Base, for the slash-separated paths of the model (none ends in a
\* slash, none is empty).
Base(path) == SubSeq(path, LastIndex(path, "/") + 2, Len(path))

\* filepath.Ext: the suffix of the last element starting at its last dot.
Ext(path) ==
  LET b == Base(path)
      d == LastIndex(b, ".")
  IN  IF d < 0 THEN "" ELSE SubSeq(b, d + 1, Len(b))

\* filepath.Dir
Dir(path) ==
  LET i == LastIndex(path, "/")
  IN  IF i < 0 THEN "." ELSE IF i = 0 THEN "/" ELSE SubSeq(path, 1, i)

\* filepath.Join(dir, name), which cleans "./name" to "name".
PathJoin(dir, name) ==
  IF dir = "." THEN name
  ELSE IF dir = "/" THEN "/" \o name
  ELSE dir \o "/" \o name

(***************************************************************************)
(* Name casing (helpers.go) and the fixer's snake_case conversion.         *)
(***************************************************************************)

\* isSnakeCase: false for the empty string, for a string with an upper-case
\* letter, and for one that starts or ends with an underscore.
isSnakeCase(s) ==
  /\ s # ""
  /\ \A i \in 1..Len(s) :
       /\ ~IsUpper(Char(s, i))
       /\ ~(Char(s, i) = "_" /\ (i = 1 \/ i = Len(s)))

\* isScreamingSnakeCase: the same with lower-case letters refused.
isScreamingSnakeCase(s) ==
  /\ s # ""
  /\ \A i \in 1..Len(s) :
       /\ ~IsLower(Char(s, i))
       /\ ~(Char(s, i) = "_" /\ (i = 1 \/ i = Len(s)))

\* toSnakeCase is called by fixFilename and its code is not among the
\* sources; this is the conversion its tests describe: every upper-case
\* letter is lowered, and preceded by an underscore unless it is first.
RECURSIVE toSnakeCaseFrom(_, _)
toSnakeCaseFrom(s, i) ==
  IF i > Len(s) THEN ""
  ELSE LET c == Char(s, i)
       IN  (IF IsUpper(c) /\ i > 1 THEN "_" ELSE "") \o ToLower(c)
             \o toSnakeCaseFrom(s, i + 1)

toSnakeCase(s) == toSnakeCaseFrom(s, 1)

(***************************************************************************)
(* The fixer (internal/fixer/fixer.go).  A Fix is a record                 *)
(* [Rule, Description, Line]; a Description is the format string of the    *)
(* code's fmt.Sprintf followed by its arguments.  A pass takes the line    *)
(* array and returns [lines, fixes]: the new line array and the Fix        *)
(* records it appends to the result, in order.                             *)
(***************************************************************************)

Fix(rule, description, line) ==
  [Rule |-> rule, Description |-> description, Line |-> line]

IsBlank(line) == TrimSpace(line) = ""

\* A first loop that records no Fix.
LeadingEmptyUnrecordedMutant(startIdx, i) == <<>>

\* The first loop of fixEmptyLines: one Fix per leading blank line.
RECURSIVE LeadingEmptyFixes(_, _)
LeadingEmptyFixes(startIdx, i) ==
  IF i >= startIdx THEN <<>>
  ELSE <<Fix("C-L2", <<"Removed empty line at beginning of file">>, i + 1)>>
         \o LeadingEmptyFixes(startIdx, i + 1)

\* The second loop of fixEmptyLines, from the 0-based index i on.
RECURSIVE MiddleEmpty(_, _, _)
MiddleEmpty(lines, i, prevEmpty) ==
  IF i >= Len(lines) THEN [lines |-> <<>>, fixes |-> <<>>]
  ELSE LET isEmpty == IsBlank(lines[i + 1])
       IN  IF isEmpty /\ prevEmpty
             THEN LET r == MiddleEmpty(lines, i + 1, prevEmpty)
                  IN  [lines |-> r.lines,
                       fixes |-> <<Fix("C-L2", <<"Removed consecutive empty line">>, i + 1)>>
                                   \o r.fixes]
             ELSE LET r == MiddleEmpty(lines, i + 1, isEmpty)
                  IN  [lines |-> <<lines[i + 1]>> \o r.lines, fixes |-> r.fixes]

\* A third loop that pops nothing.
TrailingEmptyKeptMutant(fixed) == [lines |-> fixed, fixes |-> <<>>]

\* The third loop of fixEmptyLines: pops the trailing blank lines of fixed.
RECURSIVE TrailingEmpty(_)
TrailingEmpty(fixed) ==
  IF Len(fixed) > 0 /\ IsBlank(fixed[Len(fixed)])
    THEN LET r == TrailingEmpty(SubSeq(fixed, 1, Len(fixed) - 1))
         IN  [lines |-> r.lines,
              fixes |-> <<Fix("C-L2", <<"Removed empty line at end of file">>, Len(fixed))>>
                          \o r.fixes]
    ELSE [lines |-> fixed, fixes |-> <<>>]

fixEmptyLines(lines) ==
  IF Len(lines) = 0 THEN [lines |-> lines, fixes |-> <<>>]
  ELSE LET blank    == {i \in 1..Len(lines) : ~IsBlank(lines[i])}
           startIdx == IF blank = {} THEN Len(lines) ELSE MinOf(blank) - 1
           mid      == MiddleEmpty(lines, startIdx, FALSE)
           trail    == TrailingEmpty(mid.lines)
       IN  [lines |-> trail.lines,
            fixes |-> LeadingEmptyFixes(startIdx, 0) \o mid.fixes \o trail.fixes]

\* An iteration that drops the spaces left over after the tabs.
fixIndentationLineDropsRemainderMutant(line, i) ==
  IF Len(line) > 0 /\ Char(line, 1) = " "
    THEN LET spaceCount == LeadingIn(line, {" "})
             tabCount   == spaceCount \div 4
         IN  [lines |-> <<Repeat("\t", tabCount)
                            \o SubSeq(line, spaceCount + 1, Len(line))>>,
              fixes |-> <<Fix("C-L3", <<"Replaced %d spaces with %d tabs", spaceCount, tabCount>>,
                              i + 1)>>]
    ELSE [lines |-> <<line>>, fixes |-> <<>>]

\* One iteration of fixIndentation's loop, on the line of 0-based index i.
fixIndentationLine(line, i) ==
  IF Len(line) > 0 /\ Char(line, 1) = " "
    THEN LET spaceCount == LeadingIn(line, {" "})
             tabCount   == spaceCount \div 4
             remainder  == spaceCount % 4
         IN  [lines |-> <<Repeat("\t", tabCount) \o Repeat(" ", remainder)
                            \o SubSeq(line, spaceCount + 1, Len(line))>>,
              fixes |-> <<Fix("C-L3", <<"Replaced %d spaces with %d tabs", spaceCount, tabCount>>,
                              i + 1)>>]
    ELSE [lines |-> <<line>>, fixes |-> <<>>]

RECURSIVE fixIndentationFrom(_, _)
fixIndentationFrom(lines, i) ==
  IF i >= Len(lines) THEN [lines |-> <<>>, fixes |-> <<>>]
  ELSE LET h == fixIndentationLine(lines[i + 1], i)
           r == fixIndentationFrom(lines, i + 1)
       IN  [lines |-> h.lines \o r.lines, fixes |-> h.fixes \o r.fixes]

fixIndentation(lines) == fixIndentationFrom(lines, 0)

\* The identifier class [a-zA-Z_][a-zA-Z0-9_]* of both regular expressions.
IdentStart == CharsOf(UpperLetters) \cup CharsOf(LowerLetters) \cup {"_"}

IdentChars == IdentStart \cup CharsOf(Digits)

\* The length of the longest identifier s starts with (0: none).
IdentLen(s) ==
  IF s = "" \/ Char(s, 1) \notin IdentStart THEN 0
  ELSE 1 + LeadingIn(SubSeq(s, 2, Len(s)), IdentChars)

\* The alternation (int|char|float|double|long|short|unsigned) of varDeclRegex.
VarDeclTypes == <<"int", "char", "float", "double", "long", "short", "unsigned">>

\* The alternation (int|char|float|double) of forDeclRegex.
ForDeclTypes == <<"int", "char", "float", "double">>

\* What remains of s after the first alternative of types that s starts with
\* and that white space follows (keyword\s+), or <<>> when there is none.  No
\* alternative is a prefix of another, so the first that matches is the only.
AfterType(s, types) ==
  LET hit == {k \in 1..Len(types) :
                /\ HasPrefix(s, types[k])
                /\ Len(s) > Len(types[k])
                /\ Char(s, Len(types[k]) + 1) \in WhiteSpace}
  IN  IF hit = {} THEN <<>>
      ELSE LET t == types[MinOf(hit)]
           IN  <<t, TrimLeft(SubSeq(s, Len(t) + 1, Len(s)), WhiteSpace)>>

\* The tail ([a-zA-Z_][a-zA-Z0-9_]*\s*,\s*)+([a-zA-Z_][a-zA-Z0-9_]*)\s*; of
\* varDeclRegex on s, n identifiers followed by a comma matched so far.  An
\* identifier is followed by white space, a comma or a semicolon, none of them
\* an identifier character, so the match is decided without backtracking.
RECURSIVE VarDeclTail(_, _)
VarDeclTail(s, n) ==
  LET k == IdentLen(s)
      t == TrimLeft(SubSeq(s, k + 1, Len(s)), WhiteSpace)
  IN  /\ k > 0
      /\ \/ HasPrefix(t, ",")
            /\ VarDeclTail(TrimLeft(SubSeq(t, 2, Len(t)), WhiteSpace), n + 1)
         \/ HasPrefix(t, ";") /\ n >= 1

\* varDeclRegex.MatchString(line): the expression is anchored at the start of
\* the line only.
varDeclRegex(line) ==
  LET a == AfterType(TrimLeft(line, WhiteSpace), VarDeclTypes)
  IN  a # <<>> /\ VarDeclTail(a[2], 0)

\* The indentation both splitting passes copy: the leading tabs and spaces.
Indent(line) == SubSeq(line, 1, LeadingIn(line, {"\t", " "}))

RECURSIVE SplitDecls(_, _, _, _)
SplitDecls(indent, varType, varList, k) ==
  IF k > Len(varList) THEN <<>>
  ELSE <<indent \o varType \o " " \o TrimSpace(varList[k]) \o ";">>
         \o SplitDecls(indent, varType, varList, k + 1)

\* One iteration of fixMultipleVariableDeclarations' loop, 0-based index i.
fixMultipleVariableDeclarationsLine(line, i) ==
  LET parts   == Fields(TrimSpace(line))
      varType == parts[1]
      varsStr == TrimSuffix(Join(Tail(parts), " "), ";")
      varList == Split(varsStr, ",")
  IN  IF Contains(line, "for") THEN [lines |-> <<line>>, fixes |-> <<>>]
      ELSE IF varDeclRegex(line) /\ Len(parts) >= 2
        THEN [lines |-> SplitDecls(Indent(line), varType, varList, 1),
              fixes |-> <<Fix("C-L4",
                              <<"Split multiple variable declarations into %d lines", Len(varList)>>,
                              i + 1)>>]
        ELSE [lines |-> <<line>>, fixes |-> <<>>]

RECURSIVE fixMultipleVariableDeclarationsFrom(_, _)
fixMultipleVariableDeclarationsFrom(lines, i) ==
  IF i >= Len(lines) THEN [lines |-> <<>>, fixes |-> <<>>]
  ELSE LET h == fixMultipleVariableDeclarationsLine(lines[i + 1], i)
           r == fixMultipleVariableDeclarationsFrom(lines, i + 1)
       IN  [lines |-> h.lines \o r.lines, fixes |-> h.fixes \o r.fixes]

fixMultipleVariableDeclarations(lines) == fixMultipleVariableDeclarationsFrom(lines, 0)

\* An iteration that converts the last "//" of the line instead of the first.
fixCommentFormatLineAtLastMutant(line, i) ==
  IF Contains(line, "//")
    THEN LET idx     == LastIndex(line, "//")
             before  == SubSeq(line, 1, idx)
             comment == TrimSpace(SubSeq(line, idx + 3, Len(line)))
         IN  [lines |-> <<IF comment = "" THEN TrimRight(before, {" ", "\t"})
                          ELSE before \o "/* " \o comment \o " */">>,
              fixes |-> <<Fix("C-C1", <<"Converted // comment to /* */">>, i + 1)>>]
    ELSE [lines |-> <<line>>, fixes |-> <<>>]

\* One iteration of fixCommentFormat's loop, 0-based index i.
fixCommentFormatLine(line, i) ==
  IF Contains(line, "//")
    THEN LET idx     == Index(line, "//")
             before  == SubSeq(line, 1, idx)
             comment == TrimSpace(SubSeq(line, idx + 3, Len(line)))
         IN  [lines |-> <<IF comment = "" THEN TrimRight(before, {" ", "\t"})
                          ELSE before \o "/* " \o comment \o " */">>,
              fixes |-> <<Fix("C-C1", <<"Converted // comment to /* */">>, i + 1)>>]
    ELSE [lines |-> <<line>>, fixes |-> <<>>]

RECURSIVE fixCommentFormatFrom(_, _)
fixCommentFormatFrom(lines, i) ==
  IF i >= Len(lines) THEN [lines |-> <<>>, fixes |-> <<>>]
  ELSE LET h == fixCommentFormatLine(lines[i + 1], i)
           r == fixCommentFormatFrom(lines, i + 1)
       IN  [lines |-> h.lines \o r.lines, fixes |-> h.fixes \o r.fixes]

fixCommentFormat(lines) == fixCommentFormatFrom(lines, 0)

\* forDeclRegex.FindStringSubmatch(line): <<>> when the line does not match,
\* else <<type, identifier, text between "=" and the first ";", rest>>.
\* \s*([^;]+); takes all the text up to the first semicolon, which must not
\* be empty; the code trims the third group, so how \s* and [^;]+ share the
\* white space in front of it does not show.
forDeclRegex(line) ==
  LET s1 == TrimLeft(line, WhiteSpace)
      s2 == TrimLeft(SubSeq(s1, 4, Len(s1)), WhiteSpace)
      s3 == TrimLeft(SubSeq(s2, 2, Len(s2)), WhiteSpace)
      a  == AfterType(s3, ForDeclTypes)
      k  == IdentLen(a[2])
      s4 == TrimLeft(SubSeq(a[2], k + 1, Len(a[2])), WhiteSpace)
      s5 == SubSeq(s4, 2, Len(s4))
      semi == Index(s5, ";")
  IN  IF /\ HasPrefix(s1, "for")
         /\ HasPrefix(s2, "(")
         /\ a # <<>>
         /\ k > 0
         /\ HasPrefix(s4, "=")
         /\ semi >= 1
        THEN <<a[1], SubSeq(a[2], 1, k), SubSeq(s5, 1, semi),
               SubSeq(s5, semi + 2, Len(s5))>>
        ELSE <<>>

\* One iteration of fixForLoopDeclarations' loop, 0-based index i.
fixForLoopDeclarationsLine(line, i) ==
  LET matches   == forDeclRegex(line)
      indent    == Indent(line)
      varType   == matches[1]
      varName   == matches[2]
      initValue == TrimSpace(matches[3])
      rest      == matches[4]
  IN  IF matches # <<>>
        THEN [lines |-> <<indent \o varType \o " " \o varName \o ";",
                          "",
                          indent \o "for (" \o varName \o " = " \o initValue \o ";" \o rest>>,
              fixes |-> <<Fix("C-L5", <<"Extracted variable declaration from for loop">>, i + 1)>>]
        ELSE [lines |-> <<line>>, fixes |-> <<>>]

RECURSIVE fixForLoopDeclarationsFrom(_, _)
fixForLoopDeclarationsFrom(lines, i) ==
  IF i >= Len(lines) THEN [lines |-> <<>>, fixes |-> <<>>]
  ELSE LET h == fixForLoopDeclarationsLine(lines[i + 1], i)
           r == fixForLoopDeclarationsFrom(lines, i + 1)
       IN  [lines |-> h.lines \o r.lines, fixes |-> h.fixes \o r.fixes]

fixForLoopDeclarations(lines) == fixForLoopDeclarationsFrom(lines, 0)

\* A pass put after the passes before it: its lines, its fixes appended.
ThenPass(acc, p) == [lines |-> p.lines, fixes |-> acc.fixes \o p.fixes]

thenFixIndentation(acc) == ThenPass(acc, fixIndentation(acc.lines))

thenFixMultipleVariableDeclarations(acc) ==
  ThenPass(acc, fixMultipleVariableDeclarations(acc.lines))

thenFixCommentFormat(acc) == ThenPass(acc, fixCommentFormat(acc.lines))

thenFixForLoopDeclarations(acc) == ThenPass(acc, fixForLoopDeclarations(acc.lines))

\* The passes with the for-loop extraction moved to the front.
FixPassesForLoopsFirstMutant(lines) ==
  thenFixCommentFormat(
    thenFixMultipleVariableDeclarations(
      thenFixIndentation(
        ThenPass(fixForLoopDeclarations(lines),
                 fixEmptyLines(fixForLoopDeclarations(lines).lines)))))

\* The five passes of FixFile, in its order, each on the previous one's lines.
FixPasses(lines) ==
  thenFixForLoopDeclarations(
    thenFixCommentFormat(
      thenFixMultipleVariableDeclarations(
        thenFixIndentation(fixEmptyLines(lines)))))

shouldFixFilename(filename) ==
  LET base == Base(filename)
  IN  ~isSnakeCase(TrimSuffix(base, Ext(base)))

\* A new name without the directory of the old one.
fixFilenameDropsDirMutant(filename) ==
  LET base == Base(filename)
      ext  == Ext(base)
  IN  toSnakeCase(TrimSuffix(base, ext)) \o ext

fixFilename(filename) ==
  LET base == Base(filename)
      ext  == Ext(base)
  IN  PathJoin(Dir(filename), toSnakeCase(TrimSuffix(base, ext)) \o ext)

(***************************************************************************)
(* The lexical model (helpers.go): function extraction.  A FunctionInfo is *)
(* [Name, StartLine, EndLine, ParamCount]; NoFunc is the nil currentFunc.  *)
(***************************************************************************)

NoFunc == [Name |-> "", StartLine |-> 0, EndLine |-> 0, ParamCount |-> -1]

\* The header test of extractFunctions on the line of 0-based index i: the
\* FunctionInfo it assigns to currentFunc, or NoFunc when it assigns none.
FunctionHeader(lines, i) ==
  LET trimmed   == TrimSpace(lines[i + 1])
      parenPos  == Index(trimmed, "(")
      parts     == Fields(SubSeq(trimmed, 1, parenPos))
      last      == parts[Len(parts)]
      funcName  == IF Contains(last, "*") THEN TrimLeft(last, {"*"}) ELSE last
      paramPart == SubSeq(trimmed, parenPos + 2, Len(trimmed))
      closeParenPos == Index(paramPart, ")")
      params    == SubSeq(paramPart, 1, closeParenPos)
      paramCount == IF TrimSpace(params) # "" /\ TrimSpace(params) # "void"
                      THEN Count(params, ",") + 1 ELSE 0
  IN  IF /\ Contains(trimmed, "(") /\ Contains(trimmed, ")")
         /\ \/ Contains(trimmed, "{")
            \/ i + 1 < Len(lines) /\ Contains(TrimSpace(lines[i + 2]), "{")
         /\ ~HasPrefix(trimmed, "//") /\ ~HasPrefix(trimmed, "/*")
         /\ ~Contains(trimmed, "if") /\ ~Contains(trimmed, "while")
         /\ ~Contains(trimmed, "for") /\ ~Contains(trimmed, "switch")
         /\ parenPos > 0
         /\ Len(parts) > 0
         /\ closeParenPos > 0
        THEN [Name |-> funcName, StartLine |-> i + 1, EndLine |-> 0,
              ParamCount |-> paramCount]
        ELSE NoFunc

\* The loop of extractFunctions from the 0-based index i on, with the
\* functions found so far, the open currentFunc and the running braceCount.
RECURSIVE extractFunctionsFrom(_, _, _, _, _)
extractFunctionsFrom(lines, i, functions, currentFunc, braceCount) ==
  IF i >= Len(lines) THEN functions
  ELSE LET line   == lines[i + 1]
           header == FunctionHeader(lines, i)
           cur    == IF header # NoFunc THEN header ELSE currentFunc
           braces == braceCount + Count(line, "{") - Count(line, "}")
       IN  IF cur # NoFunc /\ braces = 0 /\ Contains(line, "}")
             THEN extractFunctionsFrom(lines, i + 1,
                    Append(functions, [cur EXCEPT !.EndLine = i + 1]), NoFunc, braces)
             ELSE extractFunctionsFrom(lines, i + 1, functions, cur, braces)

extractFunctions(lines) == extractFunctionsFrom(lines, 0, <<>>, NoFunc, 0)

(***************************************************************************)
(* The rule checks (rules.go).  A FileAnalysis is [Filename, Lines,        *)
(* Functions]; a Violation is [Rule, Message, Line, Severity,              *)
(* Description], the Description being fmt.Sprintf's format and arguments. *)
(***************************************************************************)

Violation(rule, message, line, severity, description) ==
  [Rule |-> rule, Message |-> message, Line |-> line, Severity |-> severity,
   Description |-> description]

\* The integers of S in increasing order.
RECURSIVE SortedSeq(_)
SortedSeq(S) ==
  IF S = {} THEN <<>>
  ELSE LET m == MinOf(S) IN <<m>> \o SortedSeq(S \ {m})

RECURSIVE MapSeq(_, _)
MapSeq(idx, V) ==
  IF idx = <<>> THEN <<>> ELSE <<V[Head(idx)]>> \o MapSeq(Tail(idx), V)

\* What a loop of a check appends: V[i] for each index i of hits, in
\* increasing order of i (the order the loop visits them).
AppendedAt(hits, V) == MapSeq(SortedSeq(hits), V)

checkLineLength(analysis, filename) ==
  LET lines == analysis.Lines
      idx   == 0..(Len(lines) - 1)
  IN  AppendedAt(
        {i \in idx : Len(lines[i + 1]) > 80},
        [i \in idx |->
           Violation("C-L1", "Line too long", i + 1, "major",
             <<"Line contains %d characters (max 80)", Len(lines[i + 1])>>)])

\* A check that does not look at the last line.
checkEmptyLinesSkipsLastMutant(analysis, filename) ==
  LET lines == analysis.Lines
      idx   == 1..(Len(lines) - 1)
      first == IF Len(lines) > 0 /\ TrimSpace(lines[1]) = ""
                 THEN <<Violation("C-L2", "Empty line at beginning of file", 1, "minor",
                          <<"File should not start with empty line">>)>>
                 ELSE <<>>
  IN  first \o
      AppendedAt(
        {i \in idx : TrimSpace(lines[i + 1]) = "" /\ TrimSpace(lines[i]) = ""},
        [i \in idx |->
           Violation("C-L2", "Consecutive empty lines", i + 1, "minor",
             <<"Multiple consecutive empty lines are forbidden">>)])

checkEmptyLines(analysis, filename) ==
  LET lines == analysis.Lines
      idx   == 1..(Len(lines) - 1)
      first == IF Len(lines) > 0 /\ TrimSpace(lines[1]) = ""
                 THEN <<Violation("C-L2", "Empty line at beginning of file", 1, "minor",
                          <<"File should not start with empty line">>)>>
                 ELSE <<>>
      last  == IF Len(lines) > 1 /\ TrimSpace(lines[Len(lines)]) = ""
                 THEN <<Violation("C-L2", "Empty line at end of file", Len(lines), "minor",
                          <<"File should not end with empty line">>)>>
                 ELSE <<>>
  IN  first \o last \o
      AppendedAt(
        {i \in idx : TrimSpace(lines[i + 1]) = "" /\ TrimSpace(lines[i]) = ""},
        [i \in idx |->
           Violation("C-L2", "Consecutive empty lines", i + 1, "minor",
             <<"Multiple consecutive empty lines are forbidden">>)])

checkIndentation(analysis, filename) ==
  LET lines == analysis.Lines
      idx   == 0..(Len(lines) - 1)
  IN  AppendedAt(
        {i \in idx : Len(lines[i + 1]) > 0 /\ Char(lines[i + 1], 1) = " "},
        [i \in idx |->
           Violation("C-L3", "Space indentation", i + 1, "major",
             <<"Use TAB for indentation, not spaces">>)])

checkVariableDeclaration(analysis, filename) ==
  LET lines == analysis.Lines
      idx   == 0..(Len(lines) - 1)
      trimmed(i) == TrimSpace(lines[i + 1])
      typed(i) == \/ Contains(trimmed(i), "int ")
                  \/ Contains(trimmed(i), "char ")
                  \/ Contains(trimmed(i), "float ")
                  \/ Contains(trimmed(i), "double ")
  IN  AppendedAt(
        {i \in idx : typed(i) /\ Count(trimmed(i), ",") > 0 /\ ~Contains(trimmed(i), "for")},
        [i \in idx |->
           Violation("C-L4", "Multiple variable declaration", i + 1, "major",
             <<"Declare only one variable per line">>)])

checkVariablePosition(analysis, filename) == <<>>

checkFilename(analysis, filename) ==
  LET base == Base(filename)
      name == TrimSuffix(base, Ext(base))
  IN  IF ~isSnakeCase(name)
        THEN <<Violation("C-O1", "Invalid filename format", 0, "major",
                 <<"Filename must be in snake_case">>)>>
        ELSE <<>>

checkFunctionCount(analysis, filename) ==
  LET lines == analysis.Lines
      trimmed(i) == TrimSpace(lines[i])
      funcCount == Cardinality({i \in 1..Len(lines) :
                     /\ Contains(trimmed(i), "(") /\ Contains(trimmed(i), ")")
                     /\ Contains(trimmed(i), "{") /\ ~HasPrefix(trimmed(i), "//")
                     /\ ~HasPrefix(trimmed(i), "/*") /\ ~Contains(trimmed(i), "if")
                     /\ ~Contains(trimmed(i), "while") /\ ~Contains(trimmed(i), "for")
                     /\ ~Contains(trimmed(i), "main")})
  IN  IF funcCount > 3
        THEN <<Violation("C-O2", "Too many functions", 0, "major",
                 <<"File contains %d functions (max 3 excluding main)", funcCount>>)>>
        ELSE <<>>

checkFunctionNames(analysis, filename) ==
  LET fns == analysis.Functions
  IN  AppendedAt(
        {k \in 1..Len(fns) : ~isSnakeCase(fns[k].Name) /\ fns[k].Name # "main"},
        [k \in 1..Len(fns) |->
           Violation("C-F1", "Invalid function name", fns[k].StartLine, "major",
             <<"Function '%s' must be in snake_case", fns[k].Name>>)])

checkMacroNames(analysis, filename) ==
  LET lines == analysis.Lines
      idx   == 0..(Len(lines) - 1)
      trimmed(i) == TrimSpace(lines[i + 1])
      parts(i) == Fields(trimmed(i))
      macroName(i) == IF Len(parts(i)) >= 2 THEN parts(i)[2] ELSE ""
  IN  AppendedAt(
        {i \in idx : /\ HasPrefix(trimmed(i), "#define ")
                     /\ Len(parts(i)) >= 2
                     /\ ~isScreamingSnakeCase(macroName(i))},
        [i \in idx |->
           Violation("C-F2", "Invalid macro name", i + 1, "major",
             <<"Macro '%s' must be in SCREAMING_SNAKE_CASE", macroName(i)>>)])

checkFunctionLength(analysis, filename) ==
  LET fns == analysis.Functions
      length(k) == fns[k].EndLine - fns[k].StartLine + 1
  IN  AppendedAt(
        {k \in 1..Len(fns) : length(k) > 25},
        [k \in 1..Len(fns) |->
           Violation("C-F3", "Function too long", fns[k].StartLine, "major",
             <<"Function '%s' has %d lines (max 25)", fns[k].Name, length(k)>>)])

checkCommentFormat(analysis, filename) ==
  LET lines == analysis.Lines
      idx   == 0..(Len(lines) - 1)
  IN  AppendedAt(
        {i \in idx : Contains(lines[i + 1], "//")},
        [i \in idx |->
           Violation("C-C1", "Invalid comment format", i + 1, "minor",
             <<"Use /* */ comments only, not // comments">>)])

checkFunctionComment(analysis, filename) == <<>>

checkGlobalVariables(analysis, filename) == <<>>

checkFunctionParameters(analysis, filename) ==
  LET fns == analysis.Functions
  IN  AppendedAt(
        {k \in 1..Len(fns) : fns[k].ParamCount > 4},
        [k \in 1..Len(fns) |->
           Violation("C-F4", "Too many parameters", fns[k].StartLine, "major",
             <<"Function '%s' has %d parameters (max 4)", fns[k].Name, fns[k].ParamCount>>)])

checkForLoopDeclaration(analysis, filename) ==
  LET lines == analysis.Lines
      idx   == 0..(Len(lines) - 1)
      trimmed(i) == TrimSpace(lines[i + 1])
  IN  AppendedAt(
        {i \in idx : Contains(trimmed(i), "for") /\ Contains(trimmed(i), "int ")},
        [i \in idx |->
           Violation("C-L5", "Variable declaration in for loop", i + 1, "major",
             <<"Do not declare variables in for loop initialization">>)])

(***************************************************************************)
(* The analyzer: the rule registry, checkRules and calculateScore.         *)
(***************************************************************************)

Rule(code, severity, level, check) ==
  [Code |-> code, Severity |-> severity, Level |-> level, Check |-> check]

\* The rules initRules registers whatever the level.
Level1Rules ==
  {Rule("C-L1", "major", 1, "checkLineLength"),
   Rule("C-L2", "minor", 1, "checkEmptyLines"),
   Rule("C-L3", "major", 1, "checkIndentation"),
   Rule("C-L4", "major", 1, "checkVariableDeclaration"),
   Rule("C-V1", "major", 1, "checkVariablePosition"),
   Rule("C-O1", "major", 1, "checkFilename"),
   Rule("C-O2", "major", 1, "checkFunctionCount"),
   Rule("C-F1", "major", 1, "checkFunctionNames"),
   Rule("C-F2", "major", 1, "checkMacroNames"),
   Rule("C-F3", "major", 1, "checkFunctionLength")}

\* The rules initRules registers inside its test of the level.
Level2Rules ==
  {Rule("C-C1", "minor", 2, "checkCommentFormat"),
   Rule("C-C2", "minor", 2, "checkFunctionComment"),
   Rule("C-G1", "major", 2, "checkGlobalVariables"),
   Rule("C-F4", "major", 2, "checkFunctionParameters"),
   Rule("C-L5", "major", 2, "checkForLoopDeclaration")}

\* A registry with the level-2 rules from level 1 on.
initRulesFromLevel1Mutant(level) ==
  LET registered == Level1Rules \cup (IF level >= 1 THEN Level2Rules ELSE {})
  IN  [code \in {r.Code : r \in registered} |->
         CHOOSE r \in registered : r.Code = code]

\* initRules: the map a.rules, from rule code to Rule.
initRules(level) ==
  LET registered == Level1Rules \cup (IF level >= 2 THEN Level2Rules ELSE {})
  IN  [code \in {r.Code : r \in registered} |->
         CHOOSE r \in registered : r.Code = code]

NewAnalyzer(level) == [level |-> level, rules |-> initRules(level)]

\* rule.Check(analysis, filename, 0)
RunCheck(rule, analysis, filename) ==
  CASE rule.Check = "checkLineLength"          -> checkLineLength(analysis, filename)
    [] rule.Check = "checkEmptyLines"          -> checkEmptyLines(analysis, filename)
    [] rule.Check = "checkIndentation"         -> checkIndentation(analysis, filename)
    [] rule.Check = "checkVariableDeclaration" -> checkVariableDeclaration(analysis, filename)
    [] rule.Check = "checkVariablePosition"    -> checkVariablePosition(analysis, filename)
    [] rule.Check = "checkFilename"            -> checkFilename(analysis, filename)
    [] rule.Check = "checkFunctionCount"       -> checkFunctionCount(analysis, filename)
    [] rule.Check = "checkFunctionNames"       -> checkFunctionNames(analysis, filename)
    [] rule.Check = "checkMacroNames"          -> checkMacroNames(analysis, filename)
    [] rule.Check = "checkFunctionLength"      -> checkFunctionLength(analysis, filename)
    [] rule.Check = "checkCommentFormat"       -> checkCommentFormat(analysis, filename)
    [] rule.Check = "checkFunctionComment"     -> checkFunctionComment(analysis, filename)
    [] rule.Check = "checkGlobalVariables"     -> checkGlobalVariables(analysis, filename)
    [] rule.Check = "checkFunctionParameters"  -> checkFunctionParameters(analysis, filename)
    [] rule.Check = "checkForLoopDeclaration"  -> checkForLoopDeclaration(analysis, filename)

\* A visit that runs the check only while no violation has been found.
checkRulesVisitUntilFoundMutant(a, rule, analysis, filename) ==
  IF rule.Level <= a.level /\ collected = <<>>
    THEN RunCheck(rule, analysis, filename)
    ELSE <<>>

\* One iteration of checkRules' loop over the map: what visiting rule appends.
checkRulesVisit(a, rule, analysis, filename) ==
  IF rule.Level <= a.level THEN RunCheck(rule, analysis, filename) ELSE <<>>

\* checkRules, the map a.rules being iterated in the order of the codes of
\* order (Go leaves the iteration order of a map unspecified).
RECURSIVE checkRules(_, _, _, _)
checkRules(a, analysis, filename, order) ==
  IF order = <<>> THEN <<>>
  ELSE checkRulesVisit(a, a.rules[Head(order)], analysis, filename)
         \o checkRules(a, analysis, filename, Tail(order))

StartScore == 100

MajorPenalty == 5

MinorPenalty == 2

\* The loop of calculateScore, from the 1-based element k on.  The scores are
\* float64 in the code; every value they take here is an integer below 2^53,
\* which float64 holds and subtracts exactly.
RECURSIVE scoreFrom(_, _, _)
scoreFrom(violations, k, score) ==
  IF k > Len(violations) THEN score
  ELSE LET penalty == IF violations[k].Severity = "minor" THEN MinorPenalty
                      ELSE MajorPenalty
       IN  scoreFrom(violations, k + 1, score - penalty)

\* A score that is not floored at 0.
calculateScoreNoFloorMutant(violations) == scoreFrom(violations, 1, StartScore)

calculateScore(violations) ==
  LET score == scoreFrom(violations, 1, StartScore)
  IN  IF score < 0 THEN 0 ELSE score

\* analyzeFile from the rules' violations on: the FileResult.
analyzeFileResult(filename, lines, violations) ==
  [Filename |-> Base(filename), Violations |-> violations,
   Score |-> calculateScore(violations), LineCount |-> Len(lines)]

analyzeFileLines(a, filename, lines, order) ==
  analyzeFileResult(filename, lines,
    checkRules(a, [Filename |-> filename, Lines |-> lines,
                   Functions |-> extractFunctions(lines)], filename, order))

\* analyzeFile on a file that was read: its FileResult.
analyzeFile(a, filename, content, order) ==
  analyzeFileLines(a, filename, Split(content, "\n"), order)

(***************************************************************************)
(* The file system and FixFile.  A file is [content, perm]: perm "rw" is   *)
(* mode 0644, "r" is 0444 (os.WriteFile fails on opening it and leaves it  *)
(* as it is), "none" is 0000 (os.ReadFile fails too).  NoFile is a path    *)
(* that names nothing.                                                     *)
(***************************************************************************)

NoFile == [content |-> "", perm |-> "absent"]

CanRead(entry) == entry.perm \in {"rw", "r"}

CanWrite(entry) == entry.perm = "rw"

\* The nil *FixResult FixFile returns with an error.
NoResult ==
  [Filename |-> "", OriginalLines |-> 0, FixedLines |-> 0, Fixes |-> <<>>,
   ModifiedContent |-> FALSE, NewFilename |-> ""]

\* The write test without the test of f.dryRun.
WritesInDryRunMutant(dryRun, originalContent, fixedContent) ==
  fixedContent # originalContent

\* Whether FixFile calls os.WriteFile.
FixFileWrites(dryRun, originalContent, fixedContent) ==
  ~dryRun /\ fixedContent # originalContent

\* The filename fix computed in apply mode only.
RenameOnlyWhenApplyingMutant(dryRun, filename) ==
  ~dryRun /\ shouldFixFilename(filename)

\* Whether FixFile records a filename fix.
FixFileRenames(dryRun, filename) == shouldFixFilename(filename)

\* A modification reported whenever a pass recorded a Fix.
ModifiedWhenFixesMutant(dryRun, wrote, fixes) == ~dryRun /\ Len(fixes) > 0

\* result.ModifiedContent: set after os.WriteFile has succeeded.
FixFileModified(dryRun, wrote, fixes) == wrote

\* FixFile from the passes' outcome p on: the filename fix, the write, the
\* result.
FixFileReturn(dryRun, filename, entry, lines, p, fixedContent) ==
  LET rename  == FixFileRenames(dryRun, filename)
      newName == fixFilename(filename)
      write   == FixFileWrites(dryRun, entry.content, fixedContent)
  IN  IF write /\ ~CanWrite(entry)
        THEN [err |-> "write", result |-> NoResult, write |-> TRUE,
              content |-> entry.content]
        ELSE [err |-> "none",
              result |-> [Filename |-> Base(filename), OriginalLines |-> Len(lines),
                          FixedLines |-> Len(Split(fixedContent, "\n")),
                          Fixes |-> p.fixes \o
                                    (IF rename
                                       THEN <<Fix("C-O1", <<"Rename file to %s", Base(newName)>>, 0)>>
                                       ELSE <<>>),
                          ModifiedContent |-> FixFileModified(dryRun, write, p.fixes),
                          NewFilename |-> IF rename THEN newName ELSE ""],
              write |-> write,
              content |-> IF write THEN fixedContent ELSE entry.content]

FixFilePasses(dryRun, filename, entry, lines, p) ==
  FixFileReturn(dryRun, filename, entry, lines, p, Join(p.lines, "\n"))

FixFileLines(dryRun, filename, entry, lines) ==
  FixFilePasses(dryRun, filename, entry, lines, FixPasses(lines))

\* FixFile on the file that filename names, entry: the error it returns
\* ("none", or which call failed), the *FixResult, whether it called
\* os.WriteFile, and the content the file has afterwards.
FixFile(dryRun, filename, entry) ==
  IF ~CanRead(entry)
    THEN [err |-> "read", result |-> NoResult, write |-> FALSE,
          content |-> entry.content]
    ELSE FixFileLines(dryRun, filename, entry, Split(entry.content, "\n"))

\* os.Rename(old, new): new names the file old named, replacing any file it
\* named before.
Rename(f, old, new) ==
  IF new \in DOMAIN f
    THEN [f EXCEPT ![old] = NoFile, ![new] = f[old]]
    ELSE [f EXCEPT ![old] = NoFile]

(***************************************************************************)
(* The bounds and inputs of the model.                                     *)
(***************************************************************************)

\* The paths of the directory, in the lexical order filepath.Walk visits
\* them; it holds the name fixFilename gives each of them.
PathList == <<"MyFile.c", "my_file.c", "notes.txt", "util.h">>

Paths == {PathList[k] : k \in 1..Len(PathList)}

\* At most MaxFiles of the paths name a file when a run starts.
MaxFiles == 2

\* The contents a file starts with: a clean file; a line with one leading
\* space; leading and trailing blank lines around a line every pass but the
\* first rewrites, with a // comment on a line of its own and a for loop
\* declaring its variable.
FileContents ==
  {"int x;",
   " int x;",
   "\n    int a, b; // c\n//\nfor (int i = 0; i < 9; i++)\n"}

Perms == {"rw", "r", "none"}

\* The values of the -level flag: 0 .. MaxLevel.
MaxLevel == 2

Levels == 0..MaxLevel

\* The command lines: an analysis at some level, a fix run (-fix) or a dry
\* run (-dry-run) at the default level 1.
RunArgs ==
  {[mode |-> "analyze", dryRun |-> FALSE, level |-> l] : l \in Levels}
  \cup {[mode |-> "fix", dryRun |-> d, level |-> 1] : d \in BOOLEAN}

\* The codes of the rules in the order initRules inserts them.
CodeList ==
  <<"C-L1", "C-L2", "C-L3", "C-L4", "C-V1", "C-O1", "C-O2", "C-F1", "C-F2", "C-F3",
    "C-C1", "C-C2", "C-G1", "C-F4", "C-L5">>

RECURSIVE Reverse(_)
Reverse(q) == IF q = <<>> THEN <<>> ELSE Append(Reverse(Tail(q)), Head(q))

RECURSIVE Restrict(_, _)
Restrict(q, S) ==
  IF q = <<>> THEN <<>>
  ELSE (IF Head(q) \in S THEN <<Head(q)>> ELSE <<>>) \o Restrict(Tail(q), S)

\* The iteration orders of the map rules that a run over the file system
\* takes: the insertion order and its reverse.  (RulesSpec takes every order.)
MapOrders(rules) ==
  {Restrict(CodeList, DOMAIN rules), Reverse(Restrict(CodeList, DOMAIN rules))}

\* The zero Report.  TotalScore is the quotient num / den of the code's
\* float64 division, kept exact.
NoReport ==
  [Files |-> <<>>, TotalScore |-> [num |-> 0, den |-> 1], TotalFiles |-> 0,
   TotalLines |-> 0, TotalViolations |-> 0, CleanFiles |-> 0]

NoAnalyzer == [level |-> 0, rules |-> <<>>]

NoAnalysis == [Filename |-> "", Lines |-> <<>>, Functions |-> <<>>]

RunIdle ==
  /\ fs = [p \in Paths |-> NoFile]
  /\ args = [mode |-> "none", dryRun |-> FALSE, level |-> 0]
  /\ analyzer = NoAnalyzer
  /\ files = <<>>
  /\ next = 1
  /\ totalFixes = 0
  /\ filesModified = 0
  /\ report = NoReport
  /\ log = <<>>

RuleIdle == fileAnalysis = NoAnalysis /\ visited = {} /\ collected = <<>>

FunIdle == input = <<>> /\ output = <<>>

(***************************************************************************)
(* Spec: one run of the command over a directory (main.go and the          *)
(* analyzer): main, then one action per iteration of runFixer's or         *)
(* AnalyzePath's loop over the collected files, then the end of the loop.  *)
(***************************************************************************)

\* collectCFiles on the directory: the regular files with extension .c or .h.
collectCFiles(f) ==
  Restrict(PathList, {p \in DOMAIN f : f[p] # NoFile /\ Ext(p) \in {".c", ".h"}})

\* collectFiles on the directory: the walked paths with suffix .c or .h.
collectFiles(f) ==
  Restrict(PathList,
    {p \in DOMAIN f : f[p] # NoFile /\ (HasSuffix(p, ".c") \/ HasSuffix(p, ".h"))})

Init ==
  /\ \E S \in SUBSET Paths :
       /\ Cardinality(S) <= MaxFiles
       /\ \E g \in [S -> [content : FileContents, perm : Perms]] :
            fs = [p \in Paths |-> IF p \in S THEN g[p] ELSE NoFile]
  /\ args \in RunArgs
  /\ pc = "main"
  /\ analyzer = NoAnalyzer
  /\ files = <<>>
  /\ next = 1
  /\ totalFixes = 0
  /\ filesModified = 0
  /\ report = NoReport
  /\ log = <<>>
  /\ RuleIdle
  /\ FunIdle

\* main up to the loop: NewAnalyzer, then runFixer's or AnalyzePath's
\* collection of the files.  runFixer returns at once when there is none.
Main ==
  /\ pc = "main"
  /\ analyzer' = NewAnalyzer(args.level)
  /\ files' = IF args.mode = "fix" THEN collectCFiles(fs) ELSE collectFiles(fs)
  /\ pc' = IF args.mode = "fix"
             THEN (IF collectCFiles(fs) = <<>> THEN "done" ELSE "fix")
             ELSE "analyze"
  /\ UNCHANGED <<fs, args, next, totalFixes, filesModified, report, log>>
  /\ UNCHANGED <<ruleVars, funVars>>

\* Whether runFixer renames the file after FixFile returned out.
runFixerRenames(dryRun, out) ==
  /\ out.err = "none"
  /\ Len(out.result.Fixes) > 0
  /\ out.result.NewFilename # ""
  /\ ~dryRun

\* runFixer returning at the first FixFile error.
runFixerAbortsOnErrorMutant(out) == IF out.err = "none" THEN "fix" ELSE "done"

\* Where runFixer's loop goes after FixFile returned out: on an error, it
\* prints the error and goes on to the next file.
runFixerAfter(out) == "fix"

\* One iteration of runFixer's loop with what FixFile returned, out: the
\* totals and the rename.
runFixerFile(file, out) ==
  /\ fs' = IF runFixerRenames(args.dryRun, out)
             THEN Rename([fs EXCEPT ![file].content = out.content], file,
                         out.result.NewFilename)
             ELSE [fs EXCEPT ![file].content = out.content]
  /\ totalFixes' = IF out.err = "none" THEN totalFixes + Len(out.result.Fixes)
                                       ELSE totalFixes
  /\ filesModified' = IF /\ out.err = "none"
                         /\ Len(out.result.Fixes) > 0
                         /\ out.result.ModifiedContent
                        THEN filesModified + 1
                        ELSE filesModified
  /\ log' = Append(log, [file |-> file, before |-> fs[file], err |-> out.err,
                         write |-> out.write, result |-> out.result])
  /\ pc' = runFixerAfter(out)

\* One iteration of runFixer's loop.
runFixerStep ==
  /\ pc = "fix"
  /\ next <= Len(files)
  /\ runFixerFile(files[next], FixFile(args.dryRun, files[next], fs[files[next]]))
  /\ next' = next + 1
  /\ UNCHANGED <<args, analyzer, files, report>>
  /\ UNCHANGED <<ruleVars, funVars>>

\* The end of runFixer: the summary is printed.
runFixerDone ==
  /\ pc = "fix"
  /\ next > Len(files)
  /\ pc' = "done"
  /\ UNCHANGED <<runVars, ruleVars, funVars>>

\* Where AnalyzePath's loop goes when analyzeFile returns an error: on to the
\* next file.
AnalyzePathAfter(err) == "analyze"

\* AnalyzePath counting the lines of the first file only.
AnalyzePathAddFirstLinesMutant(rep, result) ==
  [rep EXCEPT !.Files = Append(@, result),
              !.TotalFiles = @ + 1,
              !.TotalLines = IF @ = 0 THEN result.LineCount ELSE @,
              !.TotalViolations = @ + Len(result.Violations),
              !.CleanFiles = IF Len(result.Violations) = 0 THEN @ + 1 ELSE @]

\* What one iteration of AnalyzePath's loop makes of the report.
AnalyzePathAdd(rep, result) ==
  [rep EXCEPT !.Files = Append(@, result),
              !.TotalFiles = @ + 1,
              !.TotalLines = @ + result.LineCount,
              !.TotalViolations = @ + Len(result.Violations),
              !.CleanFiles = IF Len(result.Violations) = 0 THEN @ + 1 ELSE @]

\* One iteration of AnalyzePath's loop, on a file that cannot be read.
AnalyzePathSkip ==
  /\ pc = "analyze"
  /\ next <= Len(files)
  /\ ~CanRead(fs[files[next]])
  /\ log' = Append(log, [file |-> files[next], before |-> fs[files[next]],
                         err |-> "read", write |-> FALSE, result |-> NoResult])
  /\ pc' = AnalyzePathAfter("read")
  /\ next' = next + 1
  /\ UNCHANGED <<fs, args, analyzer, files, totalFixes, filesModified, report>>
  /\ UNCHANGED <<ruleVars, funVars>>

AnalyzePathFile(file, result) ==
  /\ report' = AnalyzePathAdd(report, result)
  /\ log' = Append(log, [file |-> file, before |-> fs[file], err |-> "none",
                         write |-> FALSE, result |-> result])

\* One iteration of AnalyzePath's loop, on a file that is read.  The rules
\* are visited in some order of the map.
AnalyzePathStep ==
  /\ pc = "analyze"
  /\ next <= Len(files)
  /\ CanRead(fs[files[next]])
  /\ \E order \in MapOrders(analyzer.rules) :
       AnalyzePathFile(files[next],
         analyzeFile(analyzer, files[next], fs[files[next]].content, order))
  /\ next' = next + 1
  /\ UNCHANGED <<fs, args, pc, analyzer, files, totalFixes, filesModified>>
  /\ UNCHANGED <<ruleVars, funVars>>

RECURSIVE SumScores(_)
SumScores(results) ==
  IF results = <<>> THEN 0 ELSE Head(results).Score + SumScores(Tail(results))

\* The end of AnalyzePath: the total score.
AnalyzePathDone ==
  /\ pc = "analyze"
  /\ next > Len(files)
  /\ report' = IF report.TotalFiles > 0
                 THEN [report EXCEPT !.TotalScore =
                         [num |-> SumScores(report.Files), den |-> report.TotalFiles]]
                 ELSE report
  /\ pc' = "done"
  /\ UNCHANGED <<fs, args, analyzer, files, next, totalFixes, filesModified, log>>
  /\ UNCHANGED <<ruleVars, funVars>>

Next ==
  \/ Main
  \/ runFixerStep
  \/ runFixerDone
  \/ AnalyzePathSkip
  \/ AnalyzePathStep
  \/ AnalyzePathDone

Spec == Init /\ [][Next]_vars

(***************************************************************************)
(* Properties of a run.                                                    *)
(***************************************************************************)

FixRun == args.mode = "fix"

AnalysisRun == args.mode = "analyze"

\* The entries of the log of the iterations that returned no error.
Succeeded == {i \in 1..Len(log) : log[i].err = "none"}

\* C2: in a dry-run fix run no step changes the directory: every file keeps
\* its content and its name, whatever fixes were computed.
C2_DryRunLeavesFilesUnchanged == [][(FixRun /\ args.dryRun) => fs' = fs]_vars

\* A dry run that ended having computed content fixes and a filename fix for
\* a file.
C2_Witness ==
  /\ FixRun /\ args.dryRun /\ pc = "done"
  /\ \E i \in 1..Len(log) :
       /\ log[i].result.NewFilename # ""
       /\ Len(log[i].result.Fixes) > 2
       /\ fs[log[i].file] = log[i].before

\* C3: what FixFile returned for a file in this run's mode and what it
\* returns for the same name and content in the other mode, when both
\* succeed, have the same Fix records and the same NewFilename.
C3_DryRunSameFixesAsApply ==
  \A i \in 1..Len(log) :
    (FixRun /\ log[i].err = "none"
       /\ FixFile(~args.dryRun, log[i].file, log[i].before).err = "none")
    => /\ log[i].result.Fixes =
            FixFile(~args.dryRun, log[i].file, log[i].before).result.Fixes
       /\ log[i].result.NewFilename =
            FixFile(~args.dryRun, log[i].file, log[i].before).result.NewFilename

\* A dry run over a file whose content and name both get fixes, and that an
\* apply run would write successfully.
C3_Witness ==
  /\ FixRun /\ args.dryRun
  /\ \E i \in 1..Len(log) :
       /\ log[i].err = "none"
       /\ log[i].result.NewFilename # ""
       /\ Len(log[i].result.Fixes) > 2
       /\ FixFile(FALSE, log[i].file, log[i].before).err = "none"
       /\ FixFile(FALSE, log[i].file, log[i].before).write

\* The content the five passes make of a file's content.
FixedContentOf(content) == Join(FixPasses(Split(content, "\n")).lines, "\n")

\* C4: in apply mode FixFile calls os.WriteFile on a file it read iff the
\* fixed content differs from the original; ModifiedContent is true iff that
\* write was made and succeeded; in dry-run mode nothing is written and
\* ModifiedContent is false.
C4_WriteBackContract ==
  \A i \in 1..Len(log) :
    (FixRun /\ CanRead(log[i].before)) =>
      /\ ~args.dryRun =>
           (log[i].write <=> FixedContentOf(log[i].before.content) # log[i].before.content)
      /\ log[i].result.ModifiedContent <=> (log[i].write /\ log[i].err = "none")
      /\ args.dryRun => (~log[i].write /\ ~log[i].result.ModifiedContent)

\* An apply run that wrote one file and left another, for which it recorded
\* a Fix that changes nothing, unwritten.
C4_Witness ==
  /\ FixRun /\ ~args.dryRun
  /\ \E i, j \in 1..Len(log) :
       /\ log[i].write /\ log[i].err = "none" /\ log[i].result.ModifiedContent
       /\ fs[IF log[i].result.NewFilename # "" THEN log[i].result.NewFilename
                                               ELSE log[i].file].content
            # log[i].before.content
       /\ ~log[j].write /\ log[j].err = "none" /\ Len(log[j].result.Fixes) > 0

RECURSIVE SumOver(_, _)
\* The sum of f[i] for i in the set S.
SumOver(f, S) ==
  IF S = {} THEN 0
  ELSE LET i == CHOOSE j \in S : TRUE IN f[i] + SumOver(f, S \ {i})

\* The results of the iterations that returned no error, in the log's order.
SucceededResults == AppendedAt(Succeeded, [i \in 1..Len(log) |-> log[i].result])

\* C8: a run that ended has made one iteration for each collected file, in
\* order, whatever failed; and the totals are those of the files that did
\* not fail.
C8_FailureIsolation ==
  /\ (pc = "done" /\ files # <<>>) =>
       /\ Len(log) = Len(files)
       /\ \A i \in 1..Len(files) : log[i].file = files[i]
  /\ FixRun =>
       /\ totalFixes = SumOver([i \in 1..Len(log) |-> Len(log[i].result.Fixes)], Succeeded)
       /\ filesModified =
            Cardinality({i \in Succeeded : /\ Len(log[i].result.Fixes) > 0
                                           /\ log[i].result.ModifiedContent})
  /\ (AnalysisRun /\ pc # "main") =>
       /\ report.Files = SucceededResults
       /\ report.TotalFiles = Cardinality(Succeeded)
       /\ report.TotalLines =
            SumOver([i \in 1..Len(log) |-> log[i].result.LineCount], Succeeded)
       /\ report.TotalViolations =
            SumOver([i \in 1..Len(log) |-> Len(log[i].result.Violations)], Succeeded)
       /\ report.CleanFiles =
            Cardinality({i \in Succeeded : Len(log[i].result.Violations) = 0})

\* A fix run that ended, whose first file could not be written and whose
\* second file was fixed.
C8_Witness ==
  /\ FixRun /\ pc = "done" /\ Len(log) = 2
  /\ log[1].err = "write"
  /\ log[2].err = "none" /\ Len(log[2].result.Fixes) > 0
  /\ totalFixes = Len(log[2].result.Fixes)

\* An analysis that ended, whose first file could not be read and whose
\* second file was analysed.
C8_WitnessAnalysis ==
  /\ AnalysisRun /\ pc = "done" /\ Len(log) = 2
  /\ log[1].err = "read"
  /\ log[2].err = "none"
  /\ report.TotalFiles = 1

\* C9: the report's counts are those of its Files list, and once AnalyzePath
\* has returned TotalScore is the mean of the files' scores, or 0 without
\* files.
C9_ReportAggregates ==
  AnalysisRun =>
    /\ report.TotalFiles = Len(report.Files)
    /\ report.TotalLines =
         SumOver([i \in 1..Len(report.Files) |-> report.Files[i].LineCount],
                 1..Len(report.Files))
    /\ report.TotalViolations =
         SumOver([i \in 1..Len(report.Files) |-> Len(report.Files[i].Violations)],
                 1..Len(report.Files))
    /\ report.CleanFiles =
         Cardinality({i \in 1..Len(report.Files) : Len(report.Files[i].Violations) = 0})
    /\ report.CleanFiles <= report.TotalFiles
    /\ pc = "done" =>
         IF Len(report.Files) = 0
           THEN report.TotalScore.num = 0
           ELSE report.TotalScore.num * Len(report.Files)
                  = SumScores(report.Files) * report.TotalScore.den

\* An analysis that ended with two files of different line counts and
\* scores, one of them clean.
C9_Witness ==
  /\ AnalysisRun /\ pc = "done"
  /\ Len(report.Files) = 2
  /\ report.Files[1].Score # report.Files[2].Score
  /\ report.Files[1].LineCount # report.Files[2].LineCount
  /\ report.CleanFiles = 1
  /\ analyzer.level >= 1

(***************************************************************************)
(* RulesSpec: checkRules on one file, one action per iteration of its loop *)
(* over the map a.rules, the iterations in any order.                      *)
(***************************************************************************)

\* The files checkRules is given: [filename, content].
RuleInputs ==
  {[filename |-> "MyFile.c", content |-> " x // c"],
   [filename |-> "my_file.c", content |-> " int x;\n\n\n"]}

\* The *FileAnalysis analyzeFile builds for a file.
FileAnalysisOf(filename, content) ==
  [Filename |-> filename, Lines |-> Split(content, "\n"),
   Functions |-> extractFunctions(Split(content, "\n"))]

RulesInit ==
  /\ \E f \in RuleInputs, level \in Levels :
       /\ input = [filename |-> f.filename, content |-> f.content, level |-> level]
       /\ analyzer = NewAnalyzer(level)
       /\ fileAnalysis = FileAnalysisOf(f.filename, f.content)
  /\ pc = "rules"
  /\ visited = {}
  /\ collected = <<>>
  /\ output = <<>>
  /\ fs = [p \in Paths |-> NoFile]
  /\ args = [mode |-> "none", dryRun |-> FALSE, level |-> 0]
  /\ files = <<>>
  /\ next = 1
  /\ totalFixes = 0
  /\ filesModified = 0
  /\ report = NoReport
  /\ log = <<>>

\* One iteration of checkRules' loop: a rule not yet visited.
checkRulesStep ==
  /\ pc = "rules"
  /\ \E code \in DOMAIN analyzer.rules \ visited :
       /\ collected' = collected \o checkRulesVisit(analyzer, analyzer.rules[code],
                                                   fileAnalysis, input.filename)
       /\ visited' = visited \cup {code}
  /\ UNCHANGED <<fileAnalysis, pc, input, output, runVars>>

\* The end of checkRules' loop, and analyzeFile's call of calculateScore.
checkRulesReturn ==
  /\ pc = "rules"
  /\ visited = DOMAIN analyzer.rules
  /\ output' = [Violations |-> collected, Score |-> calculateScore(collected)]
  /\ pc' = "checked"
  /\ UNCHANGED <<ruleVars, input, runVars>>

RulesNext == checkRulesStep \/ checkRulesReturn

RulesSpec == RulesInit /\ [][RulesNext]_vars

\* The bag of the elements of a sequence.
RECURSIVE BagOf(_)
BagOf(seq) ==
  IF seq = <<>> THEN EmptyBag ELSE SetToBag({Head(seq)}) (+) BagOf(Tail(seq))

\* C7: in whatever order checkRules visited the rules, the violations it
\* returns are, as a multiset, those of the visit in the order the rules
\* were registered, the score is the same, and the lines and functions the
\* checks were given are as analyzeFile built them.
C7_RuleOrderIrrelevant ==
  /\ fileAnalysis = FileAnalysisOf(input.filename, input.content)
  /\ pc = "checked" =>
       /\ BagOf(output.Violations) =
            BagOf(checkRules(analyzer, FileAnalysisOf(input.filename, input.content),
                             input.filename, Restrict(CodeList, DOMAIN analyzer.rules)))
       /\ output.Score =
            calculateScore(checkRules(analyzer,
                             FileAnalysisOf(input.filename, input.content),
                             input.filename, Restrict(CodeList, DOMAIN analyzer.rules)))

\* A visit that ended with the violations in another order than that of the
\* registration, a minor one among major ones.
C7_Witness ==
  /\ pc = "checked"
  /\ Len(output.Violations) >= 2
  /\ output.Violations #
       checkRules(analyzer, fileAnalysis, input.filename,
                  Restrict(CodeList, DOMAIN analyzer.rules))
  /\ \E i, j \in 1..Len(output.Violations) :
       output.Violations[i].Severity # output.Violations[j].Severity

\* The level-1 and level-2 rule codes of the catalogue.
Level1Codes ==
  {"C-L1", "C-L2", "C-L3", "C-L4", "C-V1", "C-O1", "C-O2", "C-F1", "C-F2", "C-F3"}

Level2Codes == {"C-C1", "C-C2", "C-G1", "C-F4", "C-L5"}

\* C6: the analyzer's registry holds the ten level-1 rules whatever the
\* level and the five level-2 rules iff the level is at least 2, and a report
\* made at level 1 holds no violation of a level-2 rule.
C6_RegistryByLevel ==
  pc # "main" =>
    /\ Level1Codes \subseteq DOMAIN analyzer.rules
    /\ \A code \in Level2Codes : code \in DOMAIN analyzer.rules <=> analyzer.level >= 2
    /\ DOMAIN analyzer.rules \subseteq Level1Codes \cup Level2Codes
    /\ \A code \in DOMAIN analyzer.rules : analyzer.rules[code].Code = code
    /\ analyzer.level = 1 =>
         \A i \in 1..Len(report.Files) :
           \A k \in 1..Len(report.Files[i].Violations) :
             report.Files[i].Violations[k].Rule \notin Level2Codes

\* An analysis at level 1 that reported violations for a file in which an
\* analysis at level 2 finds a violation of a level-2 rule.
C6_Witness ==
  /\ AnalysisRun /\ pc = "done" /\ analyzer.level = 1
  /\ \E i \in 1..Len(log) :
       /\ log[i].err = "none"
       /\ Len(log[i].result.Violations) > 0
       /\ LET atLevel2 == analyzeFile(NewAnalyzer(2), log[i].file,
                                      log[i].before.content, CodeList).Violations
          IN  \E k \in 1..Len(atLevel2) : atLevel2[k].Rule \in Level2Codes

(***************************************************************************)
(* ScoreSpec: calculateScore on a violation list.                          *)
(***************************************************************************)

MaxMajor == 21

MaxMinor == 51

Repeated(v, n) == [i \in 1..n |-> v]

RECURSIVE Alternating(_, _, _, _)
\* a times v and b times w, taken in turn while both last.
Alternating(v, a, w, b) ==
  IF a = 0 THEN Repeated(w, b)
  ELSE IF b = 0 THEN Repeated(v, a)
  ELSE <<v, w>> \o Alternating(v, a - 1, w, b - 1)

MajorViolation == Violation("C-L1", "Line too long", 1, "major", "")

MinorViolation == Violation("C-L2", "Too many empty lines", 2, "minor", "")

ScoreInputs ==
  UNION {{Repeated(MajorViolation, a) \o Repeated(MinorViolation, b),
          Repeated(MinorViolation, b) \o Repeated(MajorViolation, a),
          Alternating(MajorViolation, a, MinorViolation, b)} :
         a \in 0..MaxMajor, b \in 0..MaxMinor}

ScoreInit ==
  /\ input \in ScoreInputs
  /\ output = <<>>
  /\ pc = "score"
  /\ RunIdle
  /\ RuleIdle

calculateScoreCall ==
  /\ pc = "score"
  /\ output' = calculateScore(input)
  /\ pc' = "scored"
  /\ UNCHANGED <<input, runVars, ruleVars>>

ScoreNext == calculateScoreCall

ScoreSpec == ScoreInit /\ [][ScoreNext]_vars

NumberOf(severity, violations) ==
  Cardinality({k \in 1..Len(violations) : violations[k].Severity = severity})

\* C5: the score of a violation list is 100 less 5 for each major and 2 for
\* each minor violation, or 0 if that is negative; it lies between 0 and 100
\* and is 100 for the empty list.
C5_ScoreFormula ==
  pc = "scored" =>
    /\ output = MaxOf({0, 100 - 5 * NumberOf("major", input) - 2 * NumberOf("minor", input)})
    /\ output \in 0..100
    /\ input = <<>> => output = 100

\* A list of major and minor violations whose penalties exceed 100, scored.
C5_Witness ==
  /\ pc = "scored"
  /\ NumberOf("major", input) > 0
  /\ NumberOf("minor", input) > 0
  /\ 5 * NumberOf("major", input) + 2 * NumberOf("minor", input) > 100
  /\ output = 0

(***************************************************************************)
(* SnakeSpec: isSnakeCase on a name.                                       *)
(***************************************************************************)

MaxNameLen == 3

NameChars == {"a", "Z", "1", "_", "-"}

RECURSIVE NamesUpTo(_)
NamesUpTo(n) ==
  IF n = 0 THEN {""}
  ELSE NamesUpTo(n - 1) \cup {s \o c : s \in NamesUpTo(n - 1), c \in NameChars}

SnakeInit ==
  /\ input \in NamesUpTo(MaxNameLen)
  /\ output = <<>>
  /\ pc = "snake"
  /\ RunIdle
  /\ RuleIdle

isSnakeCaseCall ==
  /\ pc = "snake"
  /\ output' = isSnakeCase(input)
  /\ pc' = "snaked"
  /\ UNCHANGED <<input, runVars, ruleVars>>

SnakeNext == isSnakeCaseCall

SnakeSpec == SnakeInit /\ [][SnakeNext]_vars

\* C10: isSnakeCase(s) is true iff s is not empty, each of its characters is
\* a lower-case letter, a digit or an underscore, and it neither starts nor
\* ends with an underscore.
C10_SnakeCaseExactly ==
  pc = "snaked" =>
    (output <=>
       /\ input # ""
       /\ \A i \in 1..Len(input) :
            IsLower(Char(input, i)) \/ IsDigit(Char(input, i)) \/ Char(input, i) = "_"
       /\ Char(input, 1) # "_"
       /\ Char(input, Len(input)) # "_")

(***************************************************************************)
(* PipelineSpec: the five passes of FixFile on a line array, then again on *)
(* the lines they returned.                                                *)
(***************************************************************************)

MaxLines == 3

LinePool ==
  {"", " x", "    int a, b;", "x // a // b", "for (int i = 0; i < 9; i++)", "\tint x;",
   "//"}

LineArrays == UNION {[1..n -> LinePool] : n \in 0..MaxLines}

PipelineInit ==
  /\ input \in LineArrays
  /\ output = <<>>
  /\ pc = "passes"
  /\ RunIdle
  /\ RuleIdle

\* The passes on the input.
FixPassesRun ==
  /\ pc = "passes"
  /\ output' = <<FixPasses(input)>>
  /\ pc' = "again"
  /\ UNCHANGED <<input, runVars, ruleVars>>

\* The passes on the lines of the first run.
FixPassesRerun ==
  /\ pc = "again"
  /\ output' = Append(output, FixPasses(output[1].lines))
  /\ pc' = "fixed"
  /\ UNCHANGED <<input, runVars, ruleVars>>

PipelineNext == FixPassesRun \/ FixPassesRerun

PipelineSpec == PipelineInit /\ [][PipelineNext]_vars

\* C1: the passes run again on the lines of a first run record no Fix and
\* return the lines as they were.
C1_SecondRunFixesNothing ==
  pc = "fixed" => (output[2].fixes = <<>> /\ output[2].lines = output[1].lines)

(***************************************************************************)
(* FilenameSpec: FixFile on a writable file, for its filename fix.         *)
(***************************************************************************)

\* The names FixFile is given: with and without a directory, absolute and
\* relative, with a stem that is or is not in snake_case, with a dot in the
\* stem or in a directory, and with an empty stem.
Filenames ==
  {"MyFile.c", "my_file.c", "path/to/MyFile.c", "TestCase.h", "already_snake.c",
   "/abs/path/CamelCase.c", "/Test.c", "a.b/test_123.c", "d/My.File.h", ".c"}

FilenameInit ==
  /\ input \in [filename : Filenames, content : FileContents, dryRun : BOOLEAN]
  /\ output = <<>>
  /\ pc = "name"
  /\ RunIdle
  /\ RuleIdle

FixFileCall ==
  /\ pc = "name"
  /\ output' = FixFile(input.dryRun, input.filename,
                       [content |-> input.content, perm |-> "rw"])
  /\ pc' = "named"
  /\ UNCHANGED <<input, runVars, ruleVars>>

FilenameNext == FixFileCall

FilenameSpec == FilenameInit /\ [][FilenameNext]_vars

\* The basename of a path without its extension.
Stem(path) == TrimSuffix(Base(path), Ext(path))

\* The positions of the C-O1 fixes in a list of fixes.
FilenameFixes(fixes) == {k \in 1..Len(fixes) : fixes[k].Rule = "C-O1"}

TreePathList ==
  <<"r", "r/a.c", "r/b.txt", "r/d.h", "r/d.h/e.c", "r/sub", "r/sub/f.h", "r/sub/g">>

TreePaths == {TreePathList[k] : k \in 1..Len(TreePathList)}

\* The trees: the root is a directory, and what is not in a directory is
\* absent.
Trees ==
  {t \in [TreePaths -> {"file", "dir", "absent"}] :
     /\ t["r"] = "dir"
     /\ \A p \in TreePaths \ {"r"} : t[Dir(p)] # "dir" => t[p] = "absent"}

\* The single paths given on the command line that name a file.
SinglePaths == {"x.c", "y.h", "z.txt", "Makefile", "d/w.c"}

CollectInputs ==
  {[root |-> "r", tree |-> t] : t \in Trees}
  \cup {[root |-> p, tree |-> [q \in {p} |-> "file"]] : p \in SinglePaths}

\* The paths filepath.Walk calls its function with, in its order.
Walk(tree) == Restrict(TreePathList, {p \in DOMAIN tree : tree[p] # "absent"})

\* What a loop over the list paths appends: the paths that are in the set keep.
RECURSIVE Kept(_, _)
Kept(paths, keep) ==
  IF paths = <<>> THEN <<>>
  ELSE (IF Head(paths) \in keep THEN <<Head(paths)>> ELSE <<>>) \o Kept(Tail(paths), keep)

\* collectFiles of the analyzer on a path that os.Stat finds.
collectFilesAt(root, tree) ==
  IF tree[root] = "dir"
    THEN Kept(Walk(tree),
              {p \in DOMAIN tree : HasSuffix(p, ".c") \/ HasSuffix(p, ".h")})
    ELSE IF HasSuffix(root, ".c") \/ HasSuffix(root, ".h") THEN <<root>> ELSE <<>>

\* collectCFiles of the fixer on a path that os.Stat finds.
collectCFilesAt(root, tree) ==
  IF tree[root] = "dir"
    THEN Kept(Walk(tree),
              {p \in DOMAIN tree : tree[p] # "dir" /\ Ext(p) \in {".c", ".h"}})
    ELSE IF Ext(root) \in {".c", ".h"} THEN <<root>> ELSE <<>>

CollectInit ==
  /\ input \in CollectInputs
  /\ output = <<>>
  /\ pc = "collect"
  /\ RunIdle
  /\ RuleIdle

collectFilesCall ==
  /\ pc = "collect"
  /\ output' = collectFilesAt(input.root, input.tree)
  /\ pc' = "collected"
  /\ UNCHANGED <<input, runVars, ruleVars>>

collectCFilesCall ==
  /\ pc = "collect"
  /\ output' = collectCFilesAt(input.root, input.tree)
  /\ pc' = "collectedC"
  /\ UNCHANGED <<input, runVars, ruleVars>>

CollectNext == collectFilesCall \/ collectCFilesCall

CollectSpec == CollectInit /\ [][CollectNext]_vars

\* The regular files of the input whose extension is .c or .h.
SourceFiles ==
  {p \in DOMAIN input.tree : input.tree[p] = "file" /\ Ext(p) \in {".c", ".h"}}

\* C12: each collector returns exactly the regular files, at any depth,
\* whose extension is .c or .h, each once: no directory and no file with
\* another extension; for a single file, that file iff its extension is .c
\* or .h.
C12_CollectorsReturnSourceFiles ==
  pc \in {"collected", "collectedC"} =>
    /\ {output[k] : k \in 1..Len(output)} = SourceFiles
    /\ Len(output) = Cardinality(SourceFiles)

(***************************************************************************)
(* PassSpec: one pass of the fixer on a line array.  The input names the   *)
(* pass and gives the lines, drawn from the lines that matter to it.       *)
(***************************************************************************)

MaxEmptyLines == 5

\* Lines for fixEmptyLines: blank ones, empty or of white space, and two
\* different non-blank ones.
EmptyPool == {"", " \t", "a", "b"}

\* Lines for fixIndentation: no indentation, a tab, 1, 3, 4, 6 and 8 leading
\* spaces, spaces only.
IndentPool == {"x", "\tq", " x", "   ", "    y", "      z;", "        w  v", ""}

\* Lines for fixMultipleVariableDeclarations: declarations of two and three
\* variables with different spacing and indentation, of one variable, with
\* an initializer, with text after the semicolon, with "for" in them, and
\* with a type the checker does not look for.
DeclPool ==
  {"int a, b;", "  char c,d , e;", "int a;", "for (int i, j;;) x,y;",
   "unsigned u, v;", "int a = 1, b;", "\tfloat f,g; // h", "int fort, b;"}

\* Lines for fixCommentFormat: without //, with one and with two, with
\* nothing or white space after it, and with // inside a string.
CommentPool ==
  {"x", "x // a // b", "//", "y //  \t", "  // c", "a /* b */", "s = \"http://u\";"}

\* Lines for fixForLoopDeclarations: loops that declare their variable, with
\* different spacing and indentation, loops that do not, a type the pass
\* does not know, no initializer, a line that is no loop, and a loop after
\* a form feed (white space that is neither a space nor a tab).
ForPool ==
  {"for (int i = 0; i < 9; i++)", "  for (i = 0;;)", "\tfor(char c='a';c;c++) {",
   "for (long i = 0;;)", "x", "for (int i;;)", "for ( float f =1.0 ; f ; )",
   "for (int i = 0, j = 1; i < j; i++) {", "\ffor (int i = 0;;)"}

LinesUpTo(pool, n) == UNION {[1..k -> pool] : k \in 0..n}

PassInputs ==
  {[pass |-> "fixEmptyLines", lines |-> l] : l \in LinesUpTo(EmptyPool, MaxEmptyLines)}
  \cup {[pass |-> "fixIndentation", lines |-> l] : l \in LinesUpTo(IndentPool, MaxLines)}
  \cup {[pass |-> "fixMultipleVariableDeclarations", lines |-> l] :
          l \in LinesUpTo(DeclPool, MaxLines)}
  \cup {[pass |-> "fixCommentFormat", lines |-> l] : l \in LinesUpTo(CommentPool, MaxLines)}
  \cup {[pass |-> "fixForLoopDeclarations", lines |-> l] : l \in LinesUpTo(ForPool, MaxLines)}

PassInit ==
  /\ input \in PassInputs
  /\ output = <<>>
  /\ pc = "pass"
  /\ RunIdle
  /\ RuleIdle

fixEmptyLinesCall ==
  /\ pc = "pass" /\ input.pass = "fixEmptyLines"
  /\ output' = fixEmptyLines(input.lines)
  /\ pc' = "passed"
  /\ UNCHANGED <<input, runVars, ruleVars>>

fixIndentationCall ==
  /\ pc = "pass" /\ input.pass = "fixIndentation"
  /\ output' = fixIndentation(input.lines)
  /\ pc' = "passed"
  /\ UNCHANGED <<input, runVars, ruleVars>>

fixMultipleVariableDeclarationsCall ==
  /\ pc = "pass" /\ input.pass = "fixMultipleVariableDeclarations"
  /\ output' = fixMultipleVariableDeclarations(input.lines)
  /\ pc' = "passed"
  /\ UNCHANGED <<input, runVars, ruleVars>>

fixCommentFormatCall ==
  /\ pc = "pass" /\ input.pass = "fixCommentFormat"
  /\ output' = fixCommentFormat(input.lines)
  /\ pc' = "passed"
  /\ UNCHANGED <<input, runVars, ruleVars>>

fixForLoopDeclarationsCall ==
  /\ pc = "pass" /\ input.pass = "fixForLoopDeclarations"
  /\ output' = fixForLoopDeclarations(input.lines)
  /\ pc' = "passed"
  /\ UNCHANGED <<input, runVars, ruleVars>>

PassNext ==
  \/ fixEmptyLinesCall
  \/ fixIndentationCall
  \/ fixMultipleVariableDeclarationsCall
  \/ fixCommentFormatCall
  \/ fixForLoopDeclarationsCall

PassSpec == PassInit /\ [][PassNext]_vars

\* The pass named p has returned.
Passed(p) == pc = "passed" /\ input.pass = p

\* A line of white space only, or empty.
WhitespaceOnly(line) == \A i \in 1..Len(line) : Char(line, i) \in WhiteSpace

\* The indices of the lines that are not whitespace-only.
NonBlank(lines) == {i \in 1..Len(lines) : ~WhitespaceOnly(lines[i])}

\* K keeps of lines every non-blank line, one line of each run of blank
\* lines between two non-blank lines, and no other line.
KeepsOnePerInnerRun(lines, K) ==
  /\ NonBlank(lines) \subseteq K
  /\ \A i \in K \ NonBlank(lines) :
       (\E a \in NonBlank(lines) : a < i) /\ (\E b \in NonBlank(lines) : b > i)
  /\ \A a, b \in NonBlank(lines) :
       (a + 1 < b /\ \A i \in (a + 1)..(b - 1) : i \notin NonBlank(lines))
         => Cardinality(K \cap (a + 1)..(b - 1)) = 1

\* C13: the lines fixEmptyLines returns start and end with no whitespace-only
\* line, have no two adjacent whitespace-only lines, and are the input's
\* lines, unchanged and in order, without some whitespace-only lines: all but
\* one of each run between two non-blank lines.
C13_EmptyLinesCompacted ==
  Passed("fixEmptyLines") =>
    /\ output.lines # <<>> =>
         /\ ~WhitespaceOnly(output.lines[1])
         /\ ~WhitespaceOnly(output.lines[Len(output.lines)])
    /\ \A i \in 1..(Len(output.lines) - 1) :
         ~(WhitespaceOnly(output.lines[i]) /\ WhitespaceOnly(output.lines[i + 1]))
    /\ \E K \in SUBSET (1..Len(input.lines)) :
         /\ KeepsOnePerInnerRun(input.lines, K)
         /\ output.lines = AppendedAt(K, input.lines)

\* Blank lines at the start, two in a run between non-blank lines, and one
\* at the end: the run is kept as one line.
C13_Witness ==
  /\ Passed("fixEmptyLines")
  /\ input.lines = <<" \t", "a", "", " \t", "b">>
  /\ output.lines = <<"a", "", "b">>

\* Lines that end with blank lines after a run between non-blank lines.
C13_WitnessTrailing ==
  /\ Passed("fixEmptyLines")
  /\ input.lines = <<"a", " \t", "", "b", "">>
  /\ output.lines = <<"a", " \t", "b">>

\* C14: fixEmptyLines records as many Fix records, all C-L2, as it returns
\* fewer lines than it was given.
C14_EmptyLinesAccounting ==
  Passed("fixEmptyLines") =>
    /\ Len(output.fixes) = Len(input.lines) - Len(output.lines)
    /\ \A k \in 1..Len(output.fixes) : output.fixes[k].Rule = "C-L2"

\* Lines of which each of the three loops removes some: four lines removed,
\* four Fix records.
C14_Witness ==
  /\ Passed("fixEmptyLines")
  /\ input.lines = <<"", "a", " \t", "", "">>
  /\ output.lines = <<"a">>
  /\ Len(output.fixes) = 4

\* The number of spaces a line starts with.
LeadingSpaces(line) ==
  CHOOSE n \in 0..Len(line) :
    /\ \A k \in 1..n : Char(line, k) = " "
    /\ n = Len(line) \/ Char(line, n + 1) # " "

\* C15: fixIndentation returns as many lines as it was given; a line that
\* does not start with a space is returned as it is, and one that starts
\* with n spaces as n / 4 tabs, n mod 4 spaces and the rest of the line.
C15_IndentationResult ==
  Passed("fixIndentation") =>
    /\ Len(output.lines) = Len(input.lines)
    /\ \A i \in 1..Len(input.lines) :
         LET line == input.lines[i]
             n    == LeadingSpaces(line)
         IN  output.lines[i] =
               IF n = 0 THEN line
               ELSE Repeat("\t", n \div 4) \o Repeat(" ", n % 4)
                      \o SubSeq(line, n + 1, Len(line))

\* Lines with 6, 0 and 8 leading spaces, the last with spaces further on.
C15_Witness ==
  /\ Passed("fixIndentation")
  /\ input.lines = <<"      z;", "\tq", "        w  v">>
  /\ output.lines = <<"\t  z;", "\tq", "\t\tw  v">>

\* The 1-based lines for which a list of fixes holds a Fix.
FixedLines(fixes) == {fixes[k].Line : k \in 1..Len(fixes)}

\* C16: fixIndentation records a Fix, a C-L3 one, for exactly the lines it
\* returns changed, one for each.
C16_IndentationFixPerChangedLine ==
  Passed("fixIndentation") =>
    /\ FixedLines(output.fixes) =
         {i \in 1..Len(input.lines) : output.lines[i] # input.lines[i]}
    /\ Len(output.fixes) = Cardinality(FixedLines(output.fixes))
    /\ \A k \in 1..Len(output.fixes) : output.fixes[k].Rule = "C-L3"

\* The Fix a list of fixes holds for the 1-based line i, <<>> when none.
FixOf(fixes, i) ==
  IF i \in FixedLines(fixes)
    THEN <<fixes[CHOOSE k \in 1..Len(fixes) : fixes[k].Line = i]>>
    ELSE <<>>

\* The number of output lines that stand for input line i: the count its
\* C-L4 Fix records, one when it has no Fix.
SplitCount(fixes, i) ==
  IF FixOf(fixes, i) = <<>> THEN 1 ELSE FixOf(fixes, i)[1].Description[2]

\* The number of output lines that stand for the input lines before i.
RECURSIVE SplitOffset(_, _)
SplitOffset(fixes, i) ==
  IF i <= 1 THEN 0 ELSE SplitOffset(fixes, i - 1) + SplitCount(fixes, i - 1)

\* A line of the exact form <indent><type> <one identifier>;
SingleDeclaration(line, indent) ==
  \E t \in 1..Len(VarDeclTypes) :
    LET head == indent \o VarDeclTypes[t] \o " "
        tail == SubSeq(line, Len(head) + 1, Len(line))
    IN  /\ HasPrefix(line, head)
        /\ Len(tail) >= 2
        /\ IdentLen(tail) = Len(tail) - 1
        /\ Char(tail, Len(tail)) = ";"

\* C17: each line fixMultipleVariableDeclarations rewrites has one C-L4 Fix
\* recording k >= 2 and is replaced by exactly k lines of the form
\* <original indent><type> <one identifier>; every other line, and every
\* line containing "for", is returned unchanged with no Fix.
C17_DeclarationSplitShape ==
  Passed("fixMultipleVariableDeclarations") =>
    LET fixes == output.fixes
        n     == Len(input.lines)
    IN  /\ Len(fixes) = Cardinality(FixedLines(fixes))
        /\ FixedLines(fixes) \subseteq 1..n
        /\ \A k \in 1..Len(fixes) : fixes[k].Rule = "C-L4" /\ fixes[k].Description[2] >= 2
        /\ Len(output.lines) = SplitOffset(fixes, n + 1)
        /\ \A i \in 1..n :
             LET line == input.lines[i]
                 at   == SplitOffset(fixes, i)
             IN  /\ Contains(line, "for") => FixOf(fixes, i) = <<>>
                 /\ IF FixOf(fixes, i) = <<>>
                      THEN output.lines[at + 1] = line
                      ELSE \A j \in 1..SplitCount(fixes, i) :
                             SingleDeclaration(output.lines[at + j], Indent(line))

\* The 1-based positions at which a line holds "//".
SlashSlashAt(line) == {p \in 1..(Len(line) - 1) : SubSeq(line, p, p + 1) = "//"}

\* C18: fixCommentFormat returns as many lines as it was given and leaves a
\* line without "//" unchanged; a line with "//" becomes the text before
\* the first "//" with its trailing spaces and tabs removed when the
\* trimmed text after it is empty, and that text followed by
\* "/* <trimmed text> */" otherwise. One C-C1 Fix is recorded for each
\* line with "//", however many "//" it holds.
C18_CommentConversion ==
  Passed("fixCommentFormat") =>
    /\ Len(output.lines) = Len(input.lines)
    /\ \A i \in 1..Len(input.lines) :
         LET line == input.lines[i]
         IN  IF SlashSlashAt(line) = {}
               THEN output.lines[i] = line
               ELSE LET first  == CHOOSE p \in SlashSlashAt(line) :
                                    \A q \in SlashSlashAt(line) : p <= q
                        prefix == SubSeq(line, 1, first - 1)
                        rem    == TrimSpace(SubSeq(line, first + 2, Len(line)))
                    IN  output.lines[i] =
                          IF rem = "" THEN TrimRight(prefix, {" ", "\t"})
                          ELSE prefix \o "/* " \o rem \o " */"
    /\ FixedLines(output.fixes) =
         {i \in 1..Len(input.lines) : SlashSlashAt(input.lines[i]) # {}}
    /\ Len(output.fixes) = Cardinality(FixedLines(output.fixes))
    /\ \A k \in 1..Len(output.fixes) : output.fixes[k].Rule = "C-C1"

\* A line with two "//", one with an empty comment and one without "//".
C18_Witness ==
  /\ Passed("fixCommentFormat")
  /\ input.lines = <<"x // a // b", "y //  \t", "a /* b */">>
  /\ output.lines = <<"x /* a // b */", "y", "a /* b */">>
  /\ Len(output.fixes) = 2

\* The reading of s as for ( <type> <ident> = <expr> ; <rest> with the type
\* ForDeclTypes[t], "=" at position e and the first ";" after it at position
\* c: <<type, ident, expr, rest>>, or <<>> when s does not read so.
ForHeaderAt(s, t, e, c) ==
  LET type  == ForDeclTypes[t]
      words == Fields(SubSeq(s, 1, e - 1))
  IN  IF /\ HasPrefix(s, "for")
         /\ c > e + 1
         /\ Len(words) >= 2
         /\ Join(SubSeq(words, 1, Len(words) - 1), "") = "for(" \o type
         /\ HasSuffix(words[Len(words) - 1], type)
         /\ IdentLen(words[Len(words)]) = Len(words[Len(words)])
        THEN <<type, words[Len(words)], TrimSpace(SubSeq(s, e + 1, c - 1)),
               SubSeq(s, c + 1, Len(s))>>
        ELSE <<>>

\* The readings of a line as <indent>for ( <type> <ident> = <expr> ; <rest>,
\* each with its indent in front.
ForHeaders(line) ==
  LET indent == SubSeq(line, 1, LeadingIn(line, WhiteSpace))
      s      == SubSeq(line, Len(indent) + 1, Len(line))
      e      == Index(s, "=") + 1
      semis  == {c \in (e + 1)..Len(s) : Char(s, c) = ";"}
  IN  IF e = 0 \/ semis = {} THEN {}
      ELSE {<<indent>> \o ForHeaderAt(s, t, e, MinOf(semis)) : t \in 1..Len(ForDeclTypes)}
             \ {<<indent>>}

\* What a line is to become: three lines when it has a reading, itself
\* otherwise.
ForLoopExtracted(line) ==
  IF ForHeaders(line) = {} THEN <<line>>
  ELSE LET h == CHOOSE h \in ForHeaders(line) : TRUE
       IN  <<h[1] \o h[2] \o " " \o h[3] \o ";",
             "",
             h[1] \o "for (" \o h[3] \o " = " \o h[4] \o ";" \o h[5]>>

RECURSIVE AllForLoopsExtracted(_)
AllForLoopsExtracted(lines) ==
  IF lines = <<>> THEN <<>>
  ELSE ForLoopExtracted(Head(lines)) \o AllForLoopsExtracted(Tail(lines))

\* C19: fixForLoopDeclarations replaces every line of the form
\* <indent>for ( <type> <ident> = <expr> ; <rest>, the type one of int, char,
\* float and double, by <indent><type> <ident>; an empty line and
\* <indent>for (<ident> = <expr>;<rest>, with one C-L5 Fix, and returns every
\* other line unchanged with no Fix, so that the output is two lines longer
\* for each Fix.
C19_ForLoopExtraction ==
  Passed("fixForLoopDeclarations") =>
    /\ output.lines = AllForLoopsExtracted(input.lines)
    /\ FixedLines(output.fixes) =
         {i \in 1..Len(input.lines) : ForHeaders(input.lines[i]) # {}}
    /\ Len(output.fixes) = Cardinality(FixedLines(output.fixes))
    /\ \A k \in 1..Len(output.fixes) : output.fixes[k].Rule = "C-L5"
    /\ Len(output.lines) = Len(input.lines) + 2 * Len(output.fixes)

\* The fixes of a run that the for-loop extraction recorded.
ForLoopFixes(fixes) == {k \in 1..Len(fixes) : fixes[k].Rule = "C-L5"}

\* The places, in the lines a run returns, of the separators its for-loop
\* extraction inserted: the extraction is the last pass, and the loop it
\* found on its line i stands two lines further down for each loop before.
SeparatorsAt(run) ==
  {run.fixes[k].Line
     + 2 * Cardinality({j \in ForLoopFixes(run.fixes) : run.fixes[j].Line < run.fixes[k].Line})
     + 1 : k \in ForLoopFixes(run.fixes)}

\* The number of non-blank lines before place p.
NonBlankBefore(lines, p) == Cardinality({q \in 1..(p - 1) : ~IsBlank(lines[q])})

\* Place p holds an empty line between two non-blank lines.
SeparatorStands(lines, p) ==
  /\ 1 < p /\ p < Len(lines)
  /\ lines[p] = ""
  /\ ~IsBlank(lines[p - 1])
  /\ ~IsBlank(lines[p + 1])

\* C20: FixFile runs compaction, indentation, declaration splitting, comment
\* conversion and for-loop extraction in this order, each on the lines of the
\* one before; every separator the extraction inserted is, in the lines the
\* run returns, an empty line between two non-blank lines, and after a
\* further run it still is, between the same two non-blank lines.
C20_SeparatorsProtected ==
  /\ pc \in {"again", "fixed"} =>
       /\ output[1].lines =
            fixForLoopDeclarations(
              fixCommentFormat(
                fixMultipleVariableDeclarations(
                  fixIndentation(fixEmptyLines(input).lines).lines).lines).lines).lines
       /\ \A p \in SeparatorsAt(output[1]) : SeparatorStands(output[1].lines, p)
  /\ pc = "fixed" =>
       \A p \in SeparatorsAt(output[1]) :
         \E q \in 1..Len(output[2].lines) :
           /\ SeparatorStands(output[2].lines, q)
           /\ NonBlankBefore(output[2].lines, q) = NonBlankBefore(output[1].lines, p)

\* A loop after a comment that the conversion leaves blank: the first run
\* returns a leading blank line, which the second run removes.
C20_Witness ==
  /\ pc = "fixed"
  /\ input = <<"//", "for (int i = 0; i < 9; i++)", "">>
  /\ output[1].lines = <<"", "int i;", "", "for (i = 0; i < 9; i++)">>
  /\ output[2].lines = <<"int i;", "", "for (i = 0; i < 9; i++)">>

(***************************************************************************)
(* extractFunctions, one iteration of its loop at a time: output holds the *)
(* index i of the next line, the functions found so far, the open          *)
(* currentFunc and the running braceCount.                                 *)
(***************************************************************************)

MaxFuncLines == 3

\* Headers with no, void, two and nested-parenthesis parameters, with the
\* brace on the line or on the next one, braces, a call and an else.
FuncPool ==
  {"int f() {", "void g(void)", "int add(int a, int b) {",
   "void h(int (*cb)(int, int), int x)", "{", "}", "\tdo_a(1);", "\t} else {"}

\* Whole functions: a call followed by a line with a brace, nested blocks,
\* four parameters, two functions with a pointer result, and a function
\* whose last brace is missing.
FuncPrograms ==
  {<<"void g(void)", "{", "\tif (x) {", "\t\tdo_a(1);", "\t} else {", "\t\tdo_b(2);", "\t}", "}">>,
   <<"void complex_func(void)", "{", "\tif (x) {", "\t\twhile (y) {", "\t\t\tdo_something();",
     "\t\t}", "\t}", "}">>,
   <<"int add(int a, int b, int c, int d)", "{", "\treturn a + b + c + d;", "}">>,
   <<"int f( ) {", "}", "", "int *get_pointer(void)", "{", "\treturn NULL;", "}">>,
   <<"int my_func(int x)", "{", "\t{", "}">>}

FuncInputs == LinesUpTo(FuncPool, MaxFuncLines) \cup FuncPrograms

ExtractInit ==
  /\ input \in FuncInputs
  /\ output = [i |-> 0, functions |-> <<>>, currentFunc |-> NoFunc, braceCount |-> 0]
  /\ pc = "extract"
  /\ RunIdle
  /\ RuleIdle

\* A loop body that closes the span whenever the depth is zero, brace or not.
extractFunctionsIterationClosesAtZeroMutant(lines, st) ==
  LET line   == lines[st.i + 1]
      header == FunctionHeader(lines, st.i)
      cur    == IF header # NoFunc THEN header ELSE st.currentFunc
      braces == st.braceCount + Count(line, "{") - Count(line, "}")
  IN  IF cur # NoFunc /\ braces = 0
        THEN [i |-> st.i + 1,
              functions |-> Append(st.functions, [cur EXCEPT !.EndLine = st.i + 1]),
              currentFunc |-> NoFunc, braceCount |-> braces]
        ELSE [i |-> st.i + 1, functions |-> st.functions,
              currentFunc |-> cur, braceCount |-> braces]

\* A loop body that leaves the span open after it has emitted it.
extractFunctionsIterationKeepsOpenMutant(lines, st) ==
  LET line   == lines[st.i + 1]
      header == FunctionHeader(lines, st.i)
      cur    == IF header # NoFunc THEN header ELSE st.currentFunc
      braces == st.braceCount + Count(line, "{") - Count(line, "}")
  IN  IF cur # NoFunc /\ braces = 0 /\ Contains(line, "}")
        THEN [i |-> st.i + 1,
              functions |-> Append(st.functions, [cur EXCEPT !.EndLine = st.i + 1]),
              currentFunc |-> cur, braceCount |-> braces]
        ELSE [i |-> st.i + 1, functions |-> st.functions,
              currentFunc |-> cur, braceCount |-> braces]

\* The loop body of extractFunctions on the line of 0-based index st.i.
extractFunctionsIteration(lines, st) ==
  LET line   == lines[st.i + 1]
      header == FunctionHeader(lines, st.i)
      cur    == IF header # NoFunc THEN header ELSE st.currentFunc
      braces == st.braceCount + Count(line, "{") - Count(line, "}")
  IN  IF cur # NoFunc /\ braces = 0 /\ Contains(line, "}")
        THEN [i |-> st.i + 1,
              functions |-> Append(st.functions, [cur EXCEPT !.EndLine = st.i + 1]),
              currentFunc |-> NoFunc, braceCount |-> braces]
        ELSE [i |-> st.i + 1, functions |-> st.functions,
              currentFunc |-> cur, braceCount |-> braces]

extractFunctionsLine ==
  /\ pc = "extract" /\ output.i < Len(input)
  /\ output' = extractFunctionsIteration(input, output)
  /\ UNCHANGED <<pc, input, runVars, ruleVars>>

extractFunctionsReturn ==
  /\ pc = "extract" /\ output.i >= Len(input)
  /\ pc' = "extracted"
  /\ UNCHANGED <<input, output, runVars, ruleVars>>

ExtractNext == extractFunctionsLine \/ extractFunctionsReturn

ExtractSpec == ExtractInit /\ [][ExtractNext]_vars

\* The loop, one iteration at a time, returns what extractFunctions returns.
ExtractedAsAWhole == pc = "extracted" => output.functions = extractFunctions(input)

\* The 1-based line h reads as a function header: it holds "(" and ")", it
\* or the line after it holds "{", it is no comment and holds none of if,
\* while, for and switch.
CandidateHeader(lines, h) ==
  LET t == TrimSpace(lines[h])
  IN  /\ Count(t, "(") > 0 /\ Count(t, ")") > 0
      /\ \/ Count(t, "{") > 0
         \/ h < Len(lines) /\ Count(lines[h + 1], "{") > 0
      /\ SubSeq(t, 1, 2) \notin {"//", "/*"}
      /\ \A w \in {"if", "while", "for", "switch"} : ~Contains(t, w)

\* The places of the ")" that close the first "(" of t.
ClosingParens(t) ==
  LET open == Index(t, "(") + 1
  IN  {p \in (open + 1)..Len(t) :
         /\ Char(t, p) = ")"
         /\ Count(SubSeq(t, open, p), "(") = Count(SubSeq(t, open, p), ")")}

\* The text between the outermost parentheses of t.
BetweenParens(t) == SubSeq(t, Index(t, "(") + 2, MinOf(ClosingParens(t)) - 1)

\* The span the scan has open or has just closed for the header of line h.
SpansFrom(st, h) ==
  {f \in {st.currentFunc} : f.StartLine = h}
  \cup {st.functions[k] : k \in {j \in 1..Len(st.functions) :
                                   st.functions[j].StartLine = h /\ st.functions[j].EndLine = h}}

\* C21: once the scan has read a line that is a function header, it holds a
\* span for it whose ParamCount is 0 when the text between the header's
\* outermost parentheses is empty or void, and the number of commas in that
\* text plus one otherwise.
C21_ParamCount ==
  (pc \in {"extract", "extracted"} /\ output.i >= 1 /\ CandidateHeader(input, output.i)
     /\ ClosingParens(TrimSpace(input[output.i])) # {}) =>
    LET text == BetweenParens(TrimSpace(input[output.i]))
    IN  /\ SpansFrom(output, output.i) # {}
        /\ \A f \in SpansFrom(output, output.i) :
             f.ParamCount = IF TrimSpace(text) \in {"", "void"} THEN 0
                            ELSE Count(text, ",") + 1

\* The same for the headers whose parentheses hold text and no further
\* parentheses.
C21_ParamCountPlainList ==
  (pc \in {"extract", "extracted"} /\ output.i >= 1 /\ CandidateHeader(input, output.i)
     /\ ClosingParens(TrimSpace(input[output.i])) # {}
     /\ Count(TrimSpace(input[output.i]), "(") = 1
     /\ BetweenParens(TrimSpace(input[output.i])) # "") =>
    LET text == BetweenParens(TrimSpace(input[output.i]))
    IN  /\ SpansFrom(output, output.i) # {}
        /\ \A f \in SpansFrom(output, output.i) :
             f.ParamCount = IF TrimSpace(text) \in {"", "void"} THEN 0
                            ELSE Count(text, ",") + 1

\* The brace depth after the first k lines: the "{" less the "}" in them.
RECURSIVE BraceDepth(_, _)
BraceDepth(lines, k) ==
  IF k <= 0 THEN 0
  ELSE BraceDepth(lines, k - 1) + Count(lines[k], "{") - Count(lines[k], "}")

\* The lines from h on that hold a "}" and end at depth zero.
ClosingLines(lines, h) ==
  {e \in h..Len(lines) : BraceDepth(lines, e) = 0 /\ Count(lines[e], "}") > 0}

\* The lines at which the scan recognises a header while the depth is zero.
HeadersAtDepthZero(lines) ==
  {h \in 1..Len(lines) : FunctionHeader(lines, h - 1) # NoFunc /\ BraceDepth(lines, h - 1) = 0}

EndLines(functions) == {functions[k].EndLine : k \in 1..Len(functions)}

\* C22, amended: for a header recognised at line h at depth zero, a span ends
\* at the first line from h on that holds a "}" and ends at depth zero, and
\* no span ends between h and that line; when there is no such line, no span
\* ends at or after h.
C22_SpanClosesAtDepthZero ==
  pc = "extracted" =>
    \A h \in HeadersAtDepthZero(input) :
      IF ClosingLines(input, h) = {}
        THEN EndLines(output.functions) \cap h..Len(input) = {}
        ELSE /\ MinOf(ClosingLines(input, h)) \in EndLines(output.functions)
             /\ EndLines(output.functions) \cap h..(MinOf(ClosingLines(input, h)) - 1) = {}

\* Nested blocks, closed at the eighth line; a missing brace, never closed.
C22_Witness ==
  /\ pc = "extracted"
  /\ Len(input) = 8 /\ input[1] = "void complex_func(void)"
  /\ Len(output.functions) = 1
  /\ output.functions[1].EndLine = 8

C22_WitnessUnbalanced ==
  /\ pc = "extracted"
  /\ input = <<"int my_func(int x)", "{", "\t{", "}">>
  /\ output.functions = <<>>

\* The places <<line, column>> of the character ch from line h on.
BracesFrom(lines, h, ch) ==
  UNION {{<<l, c>> : c \in {d \in 1..Len(lines[l]) : Char(lines[l], d) = ch}} :
           l \in h..Len(lines)}

\* Place a is before place b, or is b.
NotAfter(a, b) == a[1] < b[1] \/ (a[1] = b[1] /\ a[2] <= b[2])

\* The lines of the "}" that match the first "{" from line h on: the first
\* "}" with as many "{" as "}" between that "{" and itself.
MatchingBraceLines(lines, h) ==
  LET opens   == BracesFrom(lines, h, "{")
      closes  == BracesFrom(lines, h, "}")
      first   == CHOOSE a \in opens : \A b \in opens : NotAfter(a, b)
      matches == {z \in closes :
                    /\ NotAfter(first, z)
                    /\ Cardinality({a \in opens : NotAfter(a, z)})
                         = Cardinality({b \in closes : NotAfter(first, b) /\ NotAfter(b, z)})}
  IN  IF opens = {} \/ matches = {} THEN {}
      ELSE {(CHOOSE z \in matches : \A y \in matches : NotAfter(z, y))[1]}

\* C22: for a header recognised at line h at depth zero whose braces are
\* balanced, the span ends at the first line from h on at which the depth
\* is back at zero after a "}", which is the line of the brace that matches
\* the function's opening brace.
C22_SpanClosesAtMatchingBrace ==
  pc = "extracted" =>
    \A h \in HeadersAtDepthZero(input) :
      (BraceDepth(input, Len(input)) = 0 /\ ClosingLines(input, h) # {}) =>
        /\ MinOf(ClosingLines(input, h)) \in EndLines(output.functions)
        /\ MatchingBraceLines(input, h) = {MinOf(ClosingLines(input, h))}

\* C23: while a span is open and its brace is (the depth is above zero), a
\* line either leaves the open span as it is or closes it, and the span emitted is the open one with its EndLine set:
\* no line of the body opens another span or changes the open span's Name,
\* StartLine or ParamCount.
C23_OpenSpanStable ==
  [][(pc = "extract" /\ output.currentFunc # NoFunc /\ output.braceCount > 0
        /\ output'.i = output.i + 1) =>
       \/ /\ output'.currentFunc = output.currentFunc
          /\ output'.functions = output.functions
       \/ /\ output'.currentFunc = NoFunc
          /\ output'.functions =
               Append(output.functions, [output.currentFunc EXCEPT !.EndLine = output'.i])]_vars

(***************************************************************************)
(* Single checks of rules.go on the lines of a file, next to the fixer     *)
(* pass for the same rule on the same lines.                               *)
(***************************************************************************)

MaxCountLines == 4

\* Lines for checkFunctionCount: a header with its brace, a switch, main, an
\* if, a comment, a header without brace.
CountPool ==
  {"int f(void) {", "switch (x) {", "int main(void) {", "\tif (x) {", "// g() {", "void g(void)"}

\* Lines for checkVariableDeclaration and the declaration split: lists of
\* the types the two know, a function header, a call, a loop.
AgreePool ==
  {"int a, b;", "long a, b;", "int add(int a, int b)", "int a;", "\tchar c,d;",
   "f(a, b);", "for (int i = 0, j = 0;;)", "unsigned u, v;"}

CheckInputs ==
  {[check |-> "checkFunctionCount", lines |-> l] : l \in LinesUpTo(CountPool, MaxCountLines)}
  \cup {[check |-> "checkEmptyLines", lines |-> l] : l \in LinesUpTo(EmptyPool, MaxEmptyLines)}
  \cup {[check |-> "checkVariableDeclaration", lines |-> l] : l \in LinesUpTo(AgreePool, MaxLines)}

CheckInit ==
  /\ input \in CheckInputs
  /\ output = <<>>
  /\ pc = "check"
  /\ RunIdle
  /\ RuleIdle

\* The *FileAnalysis of a file named f.c with these lines.
FileAnalysisWith(lines) ==
  [Filename |-> "f.c", Lines |-> lines, Functions |-> extractFunctions(lines)]

checkFunctionCountCall ==
  /\ pc = "check" /\ input.check = "checkFunctionCount"
  /\ output' = [violations |-> checkFunctionCount(FileAnalysisWith(input.lines), "f.c")]
  /\ pc' = "checked"
  /\ UNCHANGED <<input, runVars, ruleVars>>

\* checkEmptyLines and fixEmptyLines on the same lines.
checkEmptyLinesCall ==
  /\ pc = "check" /\ input.check = "checkEmptyLines"
  /\ output' = [violations |-> checkEmptyLines(FileAnalysisWith(input.lines), "f.c"),
                fixed |-> fixEmptyLines(input.lines)]
  /\ pc' = "checked"
  /\ UNCHANGED <<input, runVars, ruleVars>>

\* checkVariableDeclaration and fixMultipleVariableDeclarations on the same
\* lines.
checkVariableDeclarationCall ==
  /\ pc = "check" /\ input.check = "checkVariableDeclaration"
  /\ output' = [violations |-> checkVariableDeclaration(FileAnalysisWith(input.lines), "f.c"),
                fixed |-> fixMultipleVariableDeclarations(input.lines)]
  /\ pc' = "checked"
  /\ UNCHANGED <<input, runVars, ruleVars>>

CheckNext == checkFunctionCountCall \/ checkEmptyLinesCall \/ checkVariableDeclarationCall

CheckSpec == CheckInit /\ [][CheckNext]_vars

\* The check named c has returned.
Checked(c) == pc = "checked" /\ input.check = c

\* The lines that count as functions: they hold "(", ")" and "{", are no
\* comment lines, and hold neither a control keyword nor main.
FunctionLines(lines) ==
  {i \in 1..Len(lines) :
     LET t == TrimSpace(lines[i])
     IN  /\ Count(t, "(") > 0 /\ Count(t, ")") > 0 /\ Count(t, "{") > 0
         /\ SubSeq(t, 1, 2) \notin {"//", "/*"}
         /\ \A w \in {"if", "while", "for", "switch", "main"} : ~Contains(t, w)}

\* C24: checkFunctionCount reports exactly one major C-O2 violation, at line
\* 0, when more than 3 lines count as functions, and none otherwise; lines
\* with if, while, for or switch, and lines with main, do not count.
C24_FunctionCount ==
  Checked("checkFunctionCount") =>
    IF Cardinality(FunctionLines(input.lines)) > 3
      THEN /\ Len(output.violations) = 1
           /\ output.violations[1].Rule = "C-O2"
           /\ output.violations[1].Line = 0
           /\ output.violations[1].Severity = "major"
      ELSE output.violations = <<>>

\* The entries of a list of violations or fixes that carry the rule code.
OfRule(entries, code) == {k \in 1..Len(entries) : entries[k].Rule = code}

\* C25: on a non-empty array of lines, checkEmptyLines reports a C-L2
\* violation exactly when fixEmptyLines records a C-L2 Fix.
C25_EmptyLinesAgreement ==
  (Checked("checkEmptyLines") /\ Len(input.lines) > 0) =>
    (OfRule(output.violations, "C-L2") # {} <=> OfRule(output.fixed.fixes, "C-L2") # {})

\* A trailing blank line alone: one violation, one Fix.
C25_Witness ==
  /\ Checked("checkEmptyLines")
  /\ input.lines = <<"a", "", "b", " \t">>
  /\ Len(output.violations) = 1
  /\ Len(output.fixed.fixes) = 1

\* A single blank line between two others: no violation, no Fix.
C25_WitnessClean ==
  /\ Checked("checkEmptyLines")
  /\ input.lines = <<"a", "", "b">>
  /\ output.violations = <<>>
  /\ output.fixed.fixes = <<>>

\* The lines for which a list of violations holds one.
ViolationLines(violations) == {violations[k].Line : k \in 1..Len(violations)}

\* C26: checkVariableDeclaration reports a C-L4 violation for a line exactly
\* when fixMultipleVariableDeclarations records a C-L4 Fix for it.
C26_DeclarationAgreement ==
  Checked("checkVariableDeclaration") =>
    /\ ViolationLines(output.violations) = FixedLines(output.fixed.fixes)
    /\ \A k \in 1..Len(output.violations) : output.violations[k].Rule = "C-L4"
    /\ \A k \in 1..Len(output.fixed.fixes) : output.fixed.fixes[k].Rule = "C-L4"

(***************************************************************************)
(* A fix run in apply mode on one file, then an analysis of the file as    *)
(* the fix run left it.                                                    *)
(***************************************************************************)

\* Lines of the files: blank, plain, a comment alone, and a line that three
\* passes change.
RecheckPool == {"", "x", "//", " int a, b; // c"}

RecheckInit ==
  /\ input \in {[filename |-> "my_file.c", content |-> Join(l, "\n")] :
                  l \in LinesUpTo(RecheckPool, MaxLines)}
  /\ output = <<>>
  /\ pc = "fix"
  /\ RunIdle
  /\ RuleIdle

\* FixFile with dryRun false on the file.
FixFileApply ==
  /\ pc = "fix"
  /\ output' = <<FixFile(FALSE, input.filename, [content |-> input.content, perm |-> "rw"])>>
  /\ pc' = "fixed"
  /\ UNCHANGED <<input, runVars, ruleVars>>

\* analyzeFile at level 1 on the file's content after the fix.
analyzeFileAfterFix ==
  /\ pc = "fixed"
  /\ \E order \in MapOrders(NewAnalyzer(1).rules) :
       output' = Append(output, analyzeFile(NewAnalyzer(1), input.filename,
                                            output[1].content, order))
  /\ pc' = "rechecked"
  /\ UNCHANGED <<input, runVars, ruleVars>>

RecheckNext == FixFileApply \/ analyzeFileAfterFix

RecheckSpec == RecheckInit /\ [][RecheckNext]_vars

\* C27: the analysis of a file after an apply-mode FixFile holds no C-L2
\* violation.
C27_FixedFileHasNoEmptyLineViolation ==
  pc = "rechecked" => OfRule(output[2].Violations, "C-L2") = {}

\* C28: every span extractFunctions returns for n lines has
\* 1 <= StartLine <= EndLine <= n and ParamCount >= 0, and each span ends
\* before the next one starts.
C28_SpansWellFormed ==
  pc = "extracted" =>
    LET fns == output.functions
    IN  /\ \A k \in 1..Len(fns) :
             /\ 1 <= fns[k].StartLine
             /\ fns[k].StartLine <= fns[k].EndLine
             /\ fns[k].EndLine <= Len(input)
             /\ fns[k].ParamCount >= 0
        /\ \A k \in 1..(Len(fns) - 1) : fns[k].EndLine < fns[k + 1].StartLine

\* Two functions, the second after a blank line.
C28_Witness ==
  /\ pc = "extracted"
  /\ input = <<"int f( ) {", "}", "", "int *get_pointer(void)", "{", "\treturn NULL;", "}">>
  /\ Len(output.functions) = 2
  /\ output.functions[1].EndLine = 2
  /\ output.functions[2].StartLine = 4
  /\ output.functions[2].EndLine = 7

\* The .c and .h files a file system holds.
SourceFilesIn(f) == {p \in DOMAIN f : f[p] # NoFile /\ Ext(p) \in {".c", ".h"}}

\* C29: no step of a fix run in apply mode changes the number of .c and .h
\* files, and every file that is there before the step and is not the one
\* being fixed is there, as it was, after it: a rename replaces no file.
C29_ApplyRunLosesNoFile ==
  [][(FixRun /\ ~args.dryRun /\ pc = "fix" /\ next <= Len(files)) =>
       /\ Cardinality(SourceFilesIn(fs')) = Cardinality(SourceFilesIn(fs))
       /\ \A p \in SourceFilesIn(fs) \ {files[next]} : fs'[p] = fs[p]]_vars

\* The violations a list holds, as a set.
ViolationsIn(violations) == {violations[k] : k \in 1..Len(violations)}

\* C30: at every level, what checkRules returns for a file holds the
\* violations of every registered rule of level 1, so that a file with a
\* level-1 defect does not get no violation and the score 100.
C30_Level1RulesAlwaysRun ==
  pc = "checked" =>
    \A code \in DOMAIN analyzer.rules :
      analyzer.rules[code].Level = 1 =>
        /\ ViolationsIn(RunCheck(analyzer.rules[code], fileAnalysis, input.filename))
             \subseteq ViolationsIn(output.Violations)
        /\ RunCheck(analyzer.rules[code], fileAnalysis, input.filename) # <<>> =>
             output.Score < StartScore

=============================================================================
